---- MODULE Spec2Model ----
(***************************************************************************)
(* pixter: windowed access into a row-major pixel buffer.                  *)
(*                                                                         *)
(* A PhysicalImage owns the cells.  ImageRef / ImageRefMut are flattened   *)
(* (base_width, roi_x, roi_y, roi_width, roi_height) windows into it,      *)
(* ImageRefOverhang / ImageRefOverhangMut wrap such a window together with *)
(* the placement of the window inside a requested rectangle that may leave *)
(* the parent.  Iter / IterMut / IterOverhang enumerate a window and are   *)
(* split by rayon's Producer::split_at.                                    *)
(*                                                                         *)
(* A reference to a cell is modelled by the cell's linear index into       *)
(* PhysicalImage::data; the value behind it is data[index + 1].            *)
(***************************************************************************)
EXTENDS Integers, Sequences, FiniteSets, TLC

VARIABLES
    image,      \* the PhysicalImage: [kind, width, height]
    data,       \* PhysicalImage::data, a sequence of width * height cells
    cur,        \* the view the program holds now (the image itself at first)
    parent,     \* the view cur was taken from
    origin,     \* sum of the signed origins of the calls that led to cur
    calls,      \* number of view calls made so far
    last,       \* the last call and what it returned
    writes,     \* number of cells written through get_mut so far
    pieces,     \* the live iterators, left to right, with what each yielded
    iter0,      \* the PixIter / SerializePixIter as first created from cur
    panicked    \* a panic unwound the thread

vars == <<image, data, cur, parent, origin, calls, last, writes,
          pieces, iter0, panicked>>

(***************************************************************************)
(* Bounds of the model.                                                    *)
(***************************************************************************)
MaxWidth == 2
MaxHeight == 2
MaxCalls == 2
MaxWrites == 1
MaxPieces == 3
MaxDepth == 1
MaxOuter == 4

\* usize arithmetic wraps at 2^64 in a release build.  The checker's
\* integers are 32 bits wide, so the modulus is held at 2^20: every size
\* the model forms is below 2^8, a coordinate is below 2^8 or is one of the
\* ends of the usize and isize ranges, and a wrapped value compares with
\* them exactly as it does at 2^64.
USIZE_MODULUS == 2^20
USIZE_MAX == USIZE_MODULUS - 1
ISIZE_MAX == USIZE_MODULUS \div 2 - 1
ISIZE_MIN == 0 - USIZE_MODULUS \div 2

Max(a, b) == IF a >= b THEN a ELSE b

\* Option<T>
None == [some |-> FALSE]
Some(v) == [some |-> TRUE, val |-> v]

Widths == 0..MaxWidth
Heights == 0..MaxHeight
\* origins of requested rectangles: from one cell before the parent to the
\* first cell after it
SignedXs == (0 - 1)..MaxWidth
SignedYs == (0 - 1)..MaxHeight
Xs == 0..MaxWidth
Ys == 0..MaxHeight

(***************************************************************************)
(* Rectangle (lib.rs)                                                      *)
(***************************************************************************)
Rectangle(x, y, w, h) == [x |-> x, y |-> y, w |-> w, h |-> h]

Rectangle_contains(r, x, y) ==
    r.x <= x /\ x < r.x + r.w /\ r.y <= y /\ y < r.y + r.h

\* isize::clamp
\* the upper limit not applied
clamp_mutant(v, lo, hi) == IF v < lo THEN lo ELSE v

clamp(v, lo, hi) == IF v < lo THEN lo ELSE IF v > hi THEN hi ELSE v

\* usize arithmetic: a release build wraps the exact result v of an
\* operation, a debug build panics where v leaves 0 .. USIZE_MODULUS - 1
wrap(v) == v % USIZE_MODULUS
out_of_usize(v) == v < 0 \/ v >= USIZE_MODULUS
usize_sub(a, b) == wrap(a - b)

\* isize arithmetic: the same for the exact result v of a signed operation
isize_wrap(v) == ((v - ISIZE_MIN) % USIZE_MODULUS) + ISIZE_MIN
out_of_isize(v) == v < ISIZE_MIN \/ v > ISIZE_MAX

(***************************************************************************)
(* ImageRef / ImageRefMut (image_ref.rs)                                   *)
(***************************************************************************)
ImageRef_new(base_width, roi_x, roi_y, roi_width, roi_height) ==
    [kind |-> "ImageRef", base_width |-> base_width, roi_x |-> roi_x,
     roi_y |-> roi_y, roi_width |-> roi_width, roi_height |-> roi_height]

ImageRefMut_new(base_width, roi_x, roi_y, roi_width, roi_height) ==
    [kind |-> "ImageRefMut", base_width |-> base_width, roi_x |-> roi_x,
     roi_y |-> roi_y, roi_width |-> roi_width, roi_height |-> roi_height]

ImageRef_valid_rect(self) == Rectangle(0, 0, self.roi_width, self.roi_height)

ImageRefMut_valid_rect(self) == Rectangle(0, 0, self.roi_width, self.roi_height)

ImageRef_get_unchecked(self, x, y) ==
    wrap((self.roi_y + y) * self.base_width + self.roi_x + x)

ImageRefMut_get_unchecked(self, x, y) ==
    wrap((self.roi_y + y) * self.base_width + self.roi_x + x)

\* the row taken at the view's own width instead of the backing stride
ImageRefMut_get_unchecked_mut_mutant(self, x, y) ==
    (self.roi_y + y) * self.roi_width + self.roi_x + x

ImageRefMut_get_unchecked_mut(self, x, y) ==
    wrap((self.roi_y + y) * self.base_width + self.roi_x + x)

\* measured against the backing stride instead of the view's own width
ImageRef_view_is_valid_mutant(self, x, y, w, h) ==
    x + w <= self.base_width /\ y + h <= self.roi_height

ImageRef_view_is_valid(self, x, y, w, h) ==
    wrap(x + w) <= self.roi_width /\ wrap(y + h) <= self.roi_height

ImageRefMut_view_is_valid(self, x, y, w, h) ==
    wrap(x + w) <= self.roi_width /\ wrap(y + h) <= self.roi_height

\* the parent's origin dropped
ImageRef_view_unchecked_mutant(self, x, y, w, h) ==
    ImageRef_new(self.base_width, x, y, w, h)

ImageRef_view_unchecked(self, x, y, w, h) ==
    ImageRef_new(self.base_width, wrap(x + self.roi_x), wrap(y + self.roi_y), w, h)

ImageRefMut_view_unchecked(self, x, y, w, h) ==
    ImageRef_new(self.base_width, wrap(x + self.roi_x), wrap(y + self.roi_y), w, h)

ImageRefMut_view_unchecked_mut(self, x, y, w, h) ==
    ImageRefMut_new(self.base_width, wrap(x + self.roi_x), wrap(y + self.roi_y), w, h)

(***************************************************************************)
(* ImageRefOverhang / ImageRefOverhangMut (image_ref.rs)                   *)
(***************************************************************************)
ImageRefOverhang_new(valid_ref, valid_offset_x, valid_offset_y, width, height) ==
    [kind |-> "ImageRefOverhang", valid_ref |-> valid_ref,
     valid_offset_x |-> valid_offset_x, valid_offset_y |-> valid_offset_y,
     width |-> width, height |-> height]

ImageRefOverhangMut_new(valid_ref, valid_offset_x, valid_offset_y, width, height) ==
    [kind |-> "ImageRefOverhangMut", valid_ref |-> valid_ref,
     valid_offset_x |-> valid_offset_x, valid_offset_y |-> valid_offset_y,
     width |-> width, height |-> height]

\* the placement offsets forgotten
ImageRef_view_overhang_mutant(self, x, y, w, h) ==
    LET valid_x == clamp(x, 0, self.roi_width)
        valid_y == clamp(y, 0, self.roi_height)
        valid_width == usize_sub(clamp(isize_wrap(x + w), 0, self.roi_width), valid_x)
        valid_height == usize_sub(clamp(isize_wrap(y + h), 0, self.roi_height), valid_y)
    IN  ImageRefOverhang_new(
            ImageRef_view_unchecked(self, valid_x, valid_y, valid_width, valid_height),
            0, 0, w, h)

ImageRef_view_overhang(self, x, y, w, h) ==
    LET valid_x == clamp(x, 0, self.roi_width)
        valid_y == clamp(y, 0, self.roi_height)
        valid_width == usize_sub(clamp(isize_wrap(x + w), 0, self.roi_width), valid_x)
        valid_height == usize_sub(clamp(isize_wrap(y + h), 0, self.roi_height), valid_y)
    IN  ImageRefOverhang_new(
            ImageRef_view_unchecked(self, valid_x, valid_y, valid_width, valid_height),
            Max(isize_wrap(0 - x), 0), Max(isize_wrap(0 - y), 0), w, h)

ImageRefMut_view_overhang(self, x, y, w, h) ==
    LET valid_x == clamp(x, 0, self.roi_width)
        valid_y == clamp(y, 0, self.roi_height)
        valid_width == usize_sub(clamp(isize_wrap(x + w), 0, self.roi_width), valid_x)
        valid_height == usize_sub(clamp(isize_wrap(y + h), 0, self.roi_height), valid_y)
    IN  ImageRefOverhang_new(
            ImageRefMut_view_unchecked(self, valid_x, valid_y, valid_width, valid_height),
            Max(isize_wrap(0 - x), 0), Max(isize_wrap(0 - y), 0), w, h)

ImageRefMut_view_overhang_mut(self, x, y, w, h) ==
    LET valid_x == clamp(x, 0, self.roi_width)
        valid_y == clamp(y, 0, self.roi_height)
        valid_width == usize_sub(clamp(isize_wrap(x + w), 0, self.roi_width), valid_x)
        valid_height == usize_sub(clamp(isize_wrap(y + h), 0, self.roi_height), valid_y)
    IN  ImageRefOverhangMut_new(
            ImageRefMut_view_unchecked_mut(self, valid_x, valid_y, valid_width, valid_height),
            Max(isize_wrap(0 - x), 0), Max(isize_wrap(0 - y), 0), w, h)

\* the inner rectangle not translated
ImageRefOverhang_valid_rect_mutant(self) ==
    Rectangle(0, 0, self.valid_ref.roi_width, self.valid_ref.roi_height)

ImageRefOverhang_valid_rect(self) ==
    Rectangle(self.valid_offset_x, self.valid_offset_y,
              self.valid_ref.roi_width, self.valid_ref.roi_height)

ImageRefOverhangMut_valid_rect(self) ==
    Rectangle(self.valid_offset_x, self.valid_offset_y,
              self.valid_ref.roi_width, self.valid_ref.roi_height)

ImageRefOverhang_get_unchecked(self, x, y) ==
    ImageRef_get_unchecked(self.valid_ref,
        usize_sub(x, self.valid_offset_x), usize_sub(y, self.valid_offset_y))

ImageRefOverhangMut_get_unchecked(self, x, y) ==
    ImageRefMut_get_unchecked(self.valid_ref,
        usize_sub(x, self.valid_offset_x), usize_sub(y, self.valid_offset_y))

\* the offsets not taken off
ImageRefOverhangMut_get_unchecked_mut_mutant(self, x, y) ==
    ImageRefMut_get_unchecked_mut(self.valid_ref, x, y)

ImageRefOverhangMut_get_unchecked_mut(self, x, y) ==
    ImageRefMut_get_unchecked_mut(self.valid_ref,
        usize_sub(x, self.valid_offset_x), usize_sub(y, self.valid_offset_y))

\* x.checked_sub(off).map(|x| x + w <= limit).unwrap_or(false)
checked_sub_fits(x, off, w, limit) == IF x >= off THEN wrap((x - off) + w) <= limit ELSE FALSE

\* measured against the overhang's own frame
ImageRefOverhang_view_is_valid_mutant(self, x, y, w, h) ==
    x + w <= self.width /\ y + h <= self.height

ImageRefOverhang_view_is_valid(self, x, y, w, h) ==
    /\ checked_sub_fits(x, self.valid_offset_x, w, self.valid_ref.roi_width)
    /\ checked_sub_fits(y, self.valid_offset_y, h, self.valid_ref.roi_height)

ImageRefOverhangMut_view_is_valid(self, x, y, w, h) ==
    /\ checked_sub_fits(x, self.valid_offset_x, w, self.valid_ref.roi_width)
    /\ checked_sub_fits(y, self.valid_offset_y, h, self.valid_ref.roi_height)

\* the offsets of the overhang not taken off the request
ImageRefOverhang_view_unchecked_mutant(self, x, y, w, h) ==
    ImageRef_view_unchecked(self.valid_ref, x, y, w, h)

ImageRefOverhang_view_unchecked(self, x, y, w, h) ==
    ImageRef_view_unchecked(self.valid_ref,
        usize_sub(x, self.valid_offset_x), usize_sub(y, self.valid_offset_y), w, h)

ImageRefOverhangMut_view_unchecked(self, x, y, w, h) ==
    ImageRefMut_view_unchecked(self.valid_ref,
        usize_sub(x, self.valid_offset_x), usize_sub(y, self.valid_offset_y), w, h)

ImageRefOverhangMut_view_unchecked_mut(self, x, y, w, h) ==
    ImageRefMut_view_unchecked_mut(self.valid_ref,
        usize_sub(x, self.valid_offset_x), usize_sub(y, self.valid_offset_y), w, h)

\* the request passed on in the overhang's frame, offsets not taken off
ImageRefOverhang_view_overhang_mutant(self, x, y, w, h) ==
    ImageRef_view_overhang(self.valid_ref, x, y, w, h)

ImageRefOverhang_view_overhang(self, x, y, w, h) ==
    ImageRef_view_overhang(self.valid_ref,
        isize_wrap(x - self.valid_offset_x), isize_wrap(y - self.valid_offset_y), w, h)

ImageRefOverhangMut_view_overhang(self, x, y, w, h) ==
    ImageRefMut_view_overhang(self.valid_ref,
        isize_wrap(x - self.valid_offset_x), isize_wrap(y - self.valid_offset_y), w, h)

ImageRefOverhangMut_view_overhang_mut(self, x, y, w, h) ==
    ImageRefMut_view_overhang_mut(self.valid_ref,
        isize_wrap(x - self.valid_offset_x), isize_wrap(y - self.valid_offset_y), w, h)

(***************************************************************************)
(* PhysicalImage (physical_image.rs)                                       *)
(***************************************************************************)
PhysicalImage_new(width, height) ==
    [kind |-> "PhysicalImage", width |-> width, height |-> height]

PhysicalImage_is_valid(self, x, y) == x < self.width /\ y < self.height

\* column-major addressing
PhysicalImage_get_unchecked_mutant(self, x, y) == self.height * x + y

PhysicalImage_get_unchecked(self, x, y) == self.width * y + x

PhysicalImage_get_unchecked_mut(self, x, y) == self.width * y + x

PhysicalImage_view_is_valid(self, x, y, w, h) ==
    wrap(x + w) <= self.width /\ wrap(y + h) <= self.height

PhysicalImage_view_unchecked(self, x, y, w, h) ==
    ImageRef_new(self.width, x, y, w, h)

PhysicalImage_view_unchecked_mut(self, x, y, w, h) ==
    ImageRefMut_new(self.width, x, y, w, h)

PhysicalImage_view_overhang(self, x, y, w, h) ==
    LET valid_x == clamp(x, 0, self.width)
        valid_y == clamp(y, 0, self.height)
        valid_width == usize_sub(clamp(isize_wrap(x + w), 0, self.width), valid_x)
        valid_height == usize_sub(clamp(isize_wrap(y + h), 0, self.height), valid_y)
    IN  ImageRefOverhang_new(
            PhysicalImage_view_unchecked(self, valid_x, valid_y, valid_width, valid_height),
            Max(isize_wrap(0 - x), 0), Max(isize_wrap(0 - y), 0), w, h)

PhysicalImage_view_overhang_mut(self, x, y, w, h) ==
    LET valid_x == clamp(x, 0, self.width)
        valid_y == clamp(y, 0, self.height)
        valid_width == usize_sub(clamp(isize_wrap(x + w), 0, self.width), valid_x)
        valid_height == usize_sub(clamp(isize_wrap(y + h), 0, self.height), valid_y)
    IN  ImageRefOverhangMut_new(
            PhysicalImage_view_unchecked_mut(self, valid_x, valid_y, valid_width, valid_height),
            Max(isize_wrap(0 - x), 0), Max(isize_wrap(0 - y), 0), w, h)

(***************************************************************************)
(* Iter / IterMut (image_ref/iter.rs).  An operation returns the iterator  *)
(* it leaves behind, the item it yields and whether it panicked.           *)
(***************************************************************************)
Range(start, end) == [start |-> start, end |-> end]

\* Range<usize>::is_empty and ExactSizeIterator::len
Range_is_empty(r) == ~(r.start < r.end)
Range_len(r) == IF r.start < r.end THEN r.end - r.start ELSE 0

Iter_new(base_width, offset_x, width_, range) ==
    [kind |-> "Iter", base_width |-> base_width, offset_x |-> offset_x,
     width |-> width_, range |-> range]

IterMut_new(base_width, offset_x, width_, range) ==
    [kind |-> "IterMut", base_width |-> base_width, offset_x |-> offset_x,
     width |-> width_, range |-> range]

Step(it, item, panic) == [iter |-> it, item |-> item, panic |-> panic]

\* the row taken from the backing stride instead of the view's width
Iter_next_mutant(self) ==
    IF Range_is_empty(self.range) THEN Step(self, None, FALSE)
    ELSE IF self.width = 0 THEN Step(self, None, TRUE)
    ELSE LET y == self.range.start \div self.base_width
             x == self.range.start % self.width
         IN  Step([self EXCEPT !.range.start = self.range.start + 1],
                  Some(wrap(self.base_width * y + self.offset_x + x)), FALSE)

Iter_next(self) ==
    IF Range_is_empty(self.range) THEN Step(self, None, FALSE)
    ELSE IF self.width = 0 THEN Step(self, None, TRUE)
    ELSE LET y == self.range.start \div self.width
             x == self.range.start % self.width
         IN  Step([self EXCEPT !.range.start = self.range.start + 1],
                  Some(wrap(self.base_width * y + self.offset_x + x)), FALSE)

Iter_next_back(self) ==
    IF Range_is_empty(self.range) THEN Step(self, None, FALSE)
    ELSE IF self.width = 0 THEN Step(self, None, TRUE)
    ELSE LET e == self.range.end - 1
             y == e \div self.width
             x == e % self.width
         IN  Step([self EXCEPT !.range.end = e],
                  Some(wrap(self.base_width * y + self.offset_x + x)), FALSE)

\* the index taken as absolute, not relative to the range's start
Iter_split_at_mutant(self, index) ==
    <<[self EXCEPT !.range = Range(self.range.start, index)],
      [self EXCEPT !.range = Range(index, self.range.end)]>>

Iter_split_at(self, index) ==
    LET i == self.range.start + index
    IN  <<[self EXCEPT !.range = Range(self.range.start, i)],
          [self EXCEPT !.range = Range(i, self.range.end)]>>

Iter_len(self) == Range_len(self.range)

IterMut_next(self) ==
    IF Range_is_empty(self.range) THEN Step(self, None, FALSE)
    ELSE IF self.width = 0 THEN Step(self, None, TRUE)
    ELSE LET y == self.range.start \div self.width
             x == self.range.start % self.width
         IN  Step([self EXCEPT !.range.start = self.range.start + 1],
                  Some(wrap(self.base_width * y + self.offset_x + x)), FALSE)

\* the cell of the front handed out at the back
IterMut_next_back_mutant(self) ==
    IF Range_is_empty(self.range) THEN Step(self, None, FALSE)
    ELSE IF self.width = 0 THEN Step(self, None, TRUE)
    ELSE LET e == self.range.end - 1
             y == self.range.start \div self.width
             x == self.range.start % self.width
         IN  Step([self EXCEPT !.range.end = e],
                  Some(wrap(self.base_width * y + self.offset_x + x)), FALSE)

IterMut_next_back(self) ==
    IF Range_is_empty(self.range) THEN Step(self, None, FALSE)
    ELSE IF self.width = 0 THEN Step(self, None, TRUE)
    ELSE LET e == self.range.end - 1
             y == e \div self.width
             x == e % self.width
         IN  Step([self EXCEPT !.range.end = e],
                  Some(wrap(self.base_width * y + self.offset_x + x)), FALSE)

\* the right half keeps the whole range
IterMut_split_at_mutant(self, index) ==
    LET i == self.range.start + index
    IN  <<[self EXCEPT !.range = Range(self.range.start, i)], self>>

IterMut_split_at(self, index) ==
    LET i == self.range.start + index
    IN  <<[self EXCEPT !.range = Range(self.range.start, i)],
          [self EXCEPT !.range = Range(i, self.range.end)]>>

IterMut_len(self) == Range_len(self.range)

(***************************************************************************)
(* IterOverhang<I> (image_ref/iter.rs), I being Iter or IterMut            *)
(***************************************************************************)
inner_next(it) == IF it.kind = "Iter" THEN Iter_next(it) ELSE IterMut_next(it)

inner_next_back(it) ==
    IF it.kind = "Iter" THEN Iter_next_back(it) ELSE IterMut_next_back(it)

inner_split_at(it, index) ==
    IF it.kind = "Iter" THEN Iter_split_at(it, index) ELSE IterMut_split_at(it, index)

IterOverhang_new(iter, iter_width, iter_height, offset_x, offset_y, width_, height_) ==
    [kind |-> "IterOverhang", iter |-> iter,
     iter_width |-> iter_width, iter_height |-> iter_height,
     offset_x |-> offset_x, offset_y |-> offset_y,
     width |-> width_, height |-> height_,
     range |-> Range(0, width_ * height_)]

\* the right and bottom edges taken as inside
IterOverhang_in_rect_mutant(self, x, y) ==
    /\ self.offset_x <= x /\ x <= self.offset_x + self.iter_width
    /\ self.offset_y <= y /\ y <= self.offset_y + self.iter_height

\* the test both next and next_back make on the position (x, y)
IterOverhang_in_rect(self, x, y) ==
    /\ self.offset_x <= x /\ x < self.offset_x + self.iter_width
    /\ self.offset_y <= y /\ y < self.offset_y + self.iter_height

\* the inner iterator read but left where it was
IterOverhang_next_mutant(self) ==
    IF Range_is_empty(self.range) THEN Step(self, None, FALSE)
    ELSE IF self.width = 0 THEN Step(self, None, TRUE)
    ELSE LET y == self.range.start \div self.width
             x == self.range.start % self.width
             adv == [self EXCEPT !.range.start = self.range.start + 1]
         IN  IF IterOverhang_in_rect(self, x, y)
             THEN LET r == inner_next(self.iter)
                  IN  Step(adv, Some(r.item), r.panic)
             ELSE Step(adv, Some(None), FALSE)

IterOverhang_next(self) ==
    IF Range_is_empty(self.range) THEN Step(self, None, FALSE)
    ELSE IF self.width = 0 THEN Step(self, None, TRUE)
    ELSE LET y == self.range.start \div self.width
             x == self.range.start % self.width
             adv == [self EXCEPT !.range.start = self.range.start + 1]
         IN  IF IterOverhang_in_rect(self, x, y)
             THEN LET r == inner_next(self.iter)
                  IN  Step([adv EXCEPT !.iter = r.iter], Some(r.item), r.panic)
             ELSE Step(adv, Some(None), FALSE)

\* the position read before the end is moved back
IterOverhang_next_back_mutant(self) ==
    IF Range_is_empty(self.range) THEN Step(self, None, FALSE)
    ELSE IF self.width = 0 THEN Step(self, None, TRUE)
    ELSE LET e == self.range.end - 1
             y == self.range.end \div self.width
             x == self.range.end % self.width
             adv == [self EXCEPT !.range.end = e]
         IN  IF IterOverhang_in_rect(self, x, y)
             THEN LET r == inner_next_back(self.iter)
                  IN  Step([adv EXCEPT !.iter = r.iter], Some(r.item), r.panic)
             ELSE Step(adv, Some(None), FALSE)

IterOverhang_next_back(self) ==
    IF Range_is_empty(self.range) THEN Step(self, None, FALSE)
    ELSE IF self.width = 0 THEN Step(self, None, TRUE)
    ELSE LET e == self.range.end - 1
             y == e \div self.width
             x == e % self.width
             adv == [self EXCEPT !.range.end = e]
         IN  IF IterOverhang_in_rect(self, x, y)
             THEN LET r == inner_next_back(self.iter)
                  IN  Step([adv EXCEPT !.iter = r.iter], Some(r.item), r.panic)
             ELSE Step(adv, Some(None), FALSE)

\* A count: the value a release build computes (wrapping), whether some
\* operation left the usize range on the way (a debug build panics there),
\* and whether the run panics in every build (unreachable!(), % 0).
Count(val, overflow, abort) == [val |-> val, overflow |-> overflow, abort |-> abort]

IterOverhang_count_in_rect_from_0(self, to) ==
    LET first == self.offset_y * self.width + self.offset_x
        \* (offset_y + iter_height - 1) * width + offset_x + iter_width - 1,
        \* operation by operation
        e1 == self.offset_y + self.iter_height - 1
        e2 == wrap(e1) * self.width
        e3 == wrap(e2) + self.offset_x
        e4 == wrap(e3) + self.iter_width
        e5 == wrap(e4) - 1
        lastOver == out_of_usize(e1) \/ out_of_usize(e2) \/ out_of_usize(e3)
                    \/ out_of_usize(e4) \/ out_of_usize(e5)
    IN  IF to <= first THEN Count(0, FALSE, FALSE)
        ELSE IF wrap(e5) < to
        THEN Count(self.iter_width * self.iter_height, lastOver, FALSE)
        ELSE IF self.width = 0 THEN Count(0, lastOver, TRUE)
        ELSE LET to_x == to % self.width
                 to_y == to \div self.width
                 \* offset_x + iter_width - 1
                 r1 == self.offset_x + self.iter_width - 1
                 a == to_x <= self.offset_x
                 b == wrap(r1) < to_x
                 \* to_y - offset_y, and the products and sums of the arms
                 d1 == to_y - self.offset_y
                 m1 == wrap(d1) * self.iter_width
                 p1 == wrap(d1) + 1
                 m2 == wrap(p1) * self.iter_width
                 s1 == wrap(m1) + to_x
                 s2 == wrap(s1) - self.offset_x
                 over == lastOver \/ out_of_usize(r1)
             IN  CASE a /\ ~b ->
                        Count(wrap(m1), over \/ out_of_usize(d1) \/ out_of_usize(m1), FALSE)
                   [] ~a /\ b ->
                        Count(wrap(m2), over \/ out_of_usize(d1) \/ out_of_usize(p1)
                                        \/ out_of_usize(m2), FALSE)
                   [] ~a /\ ~b ->
                        Count(wrap(s2), over \/ out_of_usize(d1) \/ out_of_usize(m1)
                                        \/ out_of_usize(s1) \/ out_of_usize(s2), FALSE)
                   [] OTHER -> Count(0, over, TRUE)

\* the positions before the range's start not taken off
IterOverhang_count_in_rect_mutant(self, range) ==
    IterOverhang_count_in_rect_from_0(self, range.end)

IterOverhang_count_in_rect(self, range) ==
    LET e == IterOverhang_count_in_rect_from_0(self, range.end)
        s == IterOverhang_count_in_rect_from_0(self, range.start)
    IN  Count(wrap(e.val - s.val),
              e.overflow \/ s.overflow \/ out_of_usize(e.val - s.val),
              e.abort \/ s.abort)

\* the two halves, and the count the inner iterator was split at
IterOverhang_split_at(self, index) ==
    LET i == index + self.range.start
        iter_split_index == IterOverhang_count_in_rect(self, Range(self.range.start, i))
        halves == inner_split_at(self.iter, iter_split_index.val)
    IN  [left |-> [self EXCEPT !.iter = halves[1], !.range = Range(self.range.start, i)],
         right |-> [self EXCEPT !.iter = halves[2], !.range = Range(i, self.range.end)],
         count |-> iter_split_index]

IterOverhang_len(self) == Range_len(self.range)

(***************************************************************************)
(* pix_iter and its variants (image_ref.rs, physical_image.rs): the        *)
(* iterator inside the PixIter / SerializePixIter returned.                *)
(***************************************************************************)
\* the first index counted in rows of the backing buffer
ImageRef_pix_iter_mutant(self) ==
    LET offset == self.roi_y * self.base_width
    IN  Iter_new(self.base_width, self.roi_x, self.roi_width,
                 Range(offset, offset + self.roi_width * self.roi_height))

ImageRef_pix_iter(self) ==
    LET offset == self.roi_y * self.roi_width
    IN  Iter_new(self.base_width, self.roi_x, self.roi_width,
                 Range(offset, offset + self.roi_width * self.roi_height))

\* the rows above the view not counted
ImageRef_pix_iter_serialized_mutant(self) ==
    Iter_new(self.base_width, self.roi_x, self.roi_width,
             Range(0, self.roi_width * self.roi_height))

ImageRef_pix_iter_serialized(self) ==
    LET offset == self.roi_y * self.roi_width
    IN  Iter_new(self.base_width, self.roi_x, self.roi_width,
                 Range(offset, offset + self.roi_width * self.roi_height))

ImageRefMut_pix_iter(self) ==
    LET offset == self.roi_y * self.roi_width
    IN  Iter_new(self.base_width, self.roi_x, self.roi_width,
                 Range(offset, offset + self.roi_width * self.roi_height))

ImageRefMut_pix_iter_mut(self) ==
    LET offset == self.roi_y * self.roi_width
    IN  IterMut_new(self.base_width, self.roi_x, self.roi_width,
                    Range(offset, offset + self.roi_width * self.roi_height))

ImageRefMut_pix_iter_serialized(self) ==
    LET offset == self.roi_y * self.roi_width
    IN  Iter_new(self.base_width, self.roi_x, self.roi_width,
                 Range(offset, offset + self.roi_width * self.roi_height))

ImageRefMut_pix_iter_serialized_mut(self) ==
    LET offset == self.roi_y * self.roi_width
    IN  IterMut_new(self.base_width, self.roi_x, self.roi_width,
                    Range(offset, offset + self.roi_width * self.roi_height))

ImageRefOverhang_pix_iter(self) ==
    LET v == self.valid_ref
        offset == v.roi_y * v.roi_width
    IN  IterOverhang_new(
            Iter_new(v.base_width, v.roi_x, v.roi_width,
                     Range(offset, offset + v.roi_width * v.roi_height)),
            v.roi_width, v.roi_height, self.valid_offset_x, self.valid_offset_y,
            self.width, self.height)

ImageRefOverhang_pix_iter_serialized(self) ==
    LET v == self.valid_ref
        offset == v.roi_y * v.roi_width
    IN  IterOverhang_new(
            Iter_new(v.base_width, v.roi_x, v.roi_width,
                     Range(offset, offset + v.roi_width * v.roi_height)),
            v.roi_width, v.roi_height, self.valid_offset_x, self.valid_offset_y,
            self.width, self.height)

ImageRefOverhangMut_pix_iter(self) ==
    LET v == self.valid_ref
        offset == v.roi_y * v.roi_width
    IN  IterOverhang_new(
            Iter_new(v.base_width, v.roi_x, v.roi_width,
                     Range(offset, offset + v.roi_width * v.roi_height)),
            v.roi_width, v.roi_height, self.valid_offset_x, self.valid_offset_y,
            self.width, self.height)

ImageRefOverhangMut_pix_iter_mut(self) ==
    LET v == self.valid_ref
        offset == v.roi_y * v.roi_width
    IN  IterOverhang_new(
            IterMut_new(v.base_width, v.roi_x, v.roi_width,
                        Range(offset, offset + v.roi_width * v.roi_height)),
            v.roi_width, v.roi_height, self.valid_offset_x, self.valid_offset_y,
            self.width, self.height)

ImageRefOverhangMut_pix_iter_serialized(self) ==
    LET v == self.valid_ref
        offset == v.roi_y * v.roi_width
    IN  IterOverhang_new(
            Iter_new(v.base_width, v.roi_x, v.roi_width,
                     Range(offset, offset + v.roi_width * v.roi_height)),
            v.roi_width, v.roi_height, self.valid_offset_x, self.valid_offset_y,
            self.width, self.height)

ImageRefOverhangMut_pix_iter_serialized_mut(self) ==
    LET v == self.valid_ref
        offset == v.roi_y * v.roi_width
    IN  IterOverhang_new(
            IterMut_new(v.base_width, v.roi_x, v.roi_width,
                        Range(offset, offset + v.roi_width * v.roi_height)),
            v.roi_width, v.roi_height, self.valid_offset_x, self.valid_offset_y,
            self.width, self.height)

(***************************************************************************)
(* The traits ReadPixel, WritePixel, View, ViewMut (lib.rs): the provided  *)
(* methods, dispatched on the implementing type.                           *)
(***************************************************************************)
IsMutable(v) == v.kind \in {"PhysicalImage", "ImageRefMut", "ImageRefOverhangMut"}

IsOverhang(v) == v.kind \in {"ImageRefOverhang", "ImageRefOverhangMut"}

width(v) ==
    CASE v.kind = "PhysicalImage" -> v.width
      [] v.kind \in {"ImageRef", "ImageRefMut"} -> v.roi_width
      [] OTHER -> v.width

height(v) ==
    CASE v.kind = "PhysicalImage" -> v.height
      [] v.kind \in {"ImageRef", "ImageRefMut"} -> v.roi_height
      [] OTHER -> v.height

valid_rect(v) ==
    CASE v.kind = "ImageRef" -> ImageRef_valid_rect(v)
      [] v.kind = "ImageRefMut" -> ImageRefMut_valid_rect(v)
      [] v.kind = "ImageRefOverhang" -> ImageRefOverhang_valid_rect(v)
      [] v.kind = "ImageRefOverhangMut" -> ImageRefOverhangMut_valid_rect(v)

\* ReadPixel::is_valid, overridden by PhysicalImage
is_valid(v, x, y) ==
    IF v.kind = "PhysicalImage"
    THEN PhysicalImage_is_valid(v, x, y)
    ELSE Rectangle_contains(valid_rect(v), x, y)

get_unchecked(v, x, y) ==
    CASE v.kind = "PhysicalImage" -> PhysicalImage_get_unchecked(v, x, y)
      [] v.kind = "ImageRef" -> ImageRef_get_unchecked(v, x, y)
      [] v.kind = "ImageRefMut" -> ImageRefMut_get_unchecked(v, x, y)
      [] v.kind = "ImageRefOverhang" -> ImageRefOverhang_get_unchecked(v, x, y)
      [] v.kind = "ImageRefOverhangMut" -> ImageRefOverhangMut_get_unchecked(v, x, y)

get_unchecked_mut(v, x, y) ==
    CASE v.kind = "PhysicalImage" -> PhysicalImage_get_unchecked_mut(v, x, y)
      [] v.kind = "ImageRefMut" -> ImageRefMut_get_unchecked_mut(v, x, y)
      [] v.kind = "ImageRefOverhangMut" -> ImageRefOverhangMut_get_unchecked_mut(v, x, y)

\* ReadPixel::get
get(v, x, y) == IF is_valid(v, x, y) THEN Some(get_unchecked(v, x, y)) ELSE None

\* WritePixel::get_mut
get_mut(v, x, y) == IF is_valid(v, x, y) THEN Some(get_unchecked_mut(v, x, y)) ELSE None

view_is_valid(v, x, y, w, h) ==
    CASE v.kind = "PhysicalImage" -> PhysicalImage_view_is_valid(v, x, y, w, h)
      [] v.kind = "ImageRef" -> ImageRef_view_is_valid(v, x, y, w, h)
      [] v.kind = "ImageRefMut" -> ImageRefMut_view_is_valid(v, x, y, w, h)
      [] v.kind = "ImageRefOverhang" -> ImageRefOverhang_view_is_valid(v, x, y, w, h)
      [] v.kind = "ImageRefOverhangMut" -> ImageRefOverhangMut_view_is_valid(v, x, y, w, h)

view_unchecked(v, x, y, w, h) ==
    CASE v.kind = "PhysicalImage" -> PhysicalImage_view_unchecked(v, x, y, w, h)
      [] v.kind = "ImageRef" -> ImageRef_view_unchecked(v, x, y, w, h)
      [] v.kind = "ImageRefMut" -> ImageRefMut_view_unchecked(v, x, y, w, h)
      [] v.kind = "ImageRefOverhang" -> ImageRefOverhang_view_unchecked(v, x, y, w, h)
      [] v.kind = "ImageRefOverhangMut" -> ImageRefOverhangMut_view_unchecked(v, x, y, w, h)

view_unchecked_mut(v, x, y, w, h) ==
    CASE v.kind = "PhysicalImage" -> PhysicalImage_view_unchecked_mut(v, x, y, w, h)
      [] v.kind = "ImageRefMut" -> ImageRefMut_view_unchecked_mut(v, x, y, w, h)
      [] v.kind = "ImageRefOverhangMut" -> ImageRefOverhangMut_view_unchecked_mut(v, x, y, w, h)

\* View::view
view(v, x, y, w, h) ==
    IF view_is_valid(v, x, y, w, h) THEN Some(view_unchecked(v, x, y, w, h)) ELSE None

\* ViewMut::view_mut
view_mut(v, x, y, w, h) ==
    IF view_is_valid(v, x, y, w, h) THEN Some(view_unchecked_mut(v, x, y, w, h)) ELSE None

view_overhang(v, x, y, w, h) ==
    CASE v.kind = "PhysicalImage" -> PhysicalImage_view_overhang(v, x, y, w, h)
      [] v.kind = "ImageRef" -> ImageRef_view_overhang(v, x, y, w, h)
      [] v.kind = "ImageRefMut" -> ImageRefMut_view_overhang(v, x, y, w, h)
      [] v.kind = "ImageRefOverhang" -> ImageRefOverhang_view_overhang(v, x, y, w, h)
      [] v.kind = "ImageRefOverhangMut" -> ImageRefOverhangMut_view_overhang(v, x, y, w, h)

view_overhang_mut(v, x, y, w, h) ==
    CASE v.kind = "PhysicalImage" -> PhysicalImage_view_overhang_mut(v, x, y, w, h)
      [] v.kind = "ImageRefMut" -> ImageRefMut_view_overhang_mut(v, x, y, w, h)
      [] v.kind = "ImageRefOverhangMut" -> ImageRefOverhangMut_view_overhang_mut(v, x, y, w, h)

(***************************************************************************)
(* The program taking views: one action per call.                          *)
(***************************************************************************)
NoCall == [op |-> "none"]

ViewCall(op, x, y, w, h, res) ==
    [op |-> op, x |-> x, y |-> y, w |-> w, h |-> h, present |-> res.some]

PixelCall(op, x, y, res) == [op |-> op, x |-> x, y |-> y, res |-> res]

\* PhysicalImage::new: every cell holds T::default()
Init ==
    /\ \E w \in Widths, h \in Heights : image = PhysicalImage_new(w, h)
    /\ data = [i \in 1..(image.width * image.height) |-> 0]
    /\ panicked = FALSE
    /\ writes = 0
    /\ cur = image
    /\ parent = image
    /\ origin = [x |-> 0, y |-> 0]
    /\ calls = 0
    /\ last = NoCall
    /\ pieces = <<>>
    /\ iter0 = None

IterUnchanged == UNCHANGED <<pieces, iter0>>

\* the view returned by a call replaces the one held
Enter(v, x, y) ==
    /\ parent' = cur
    /\ cur' = v
    /\ origin' = [x |-> origin.x + x, y |-> origin.y + y]

Stay == UNCHANGED <<cur, parent, origin>>

\* the build: with overflow checks (debug) or without (release)
Builds == BOOLEAN

\* whether an addition of view_is_valid leaves the usize range: x + w, and
\* y + h when the test on x has passed (&& evaluates it only then)
view_is_valid_overflows(v, x, y, w, h) ==
    IF IsOverhang(v)
    THEN \/ x >= v.valid_offset_x /\ out_of_usize((x - v.valid_offset_x) + w)
         \/ /\ checked_sub_fits(x, v.valid_offset_x, w, v.valid_ref.roi_width)
            /\ y >= v.valid_offset_y /\ out_of_usize((y - v.valid_offset_y) + h)
    ELSE \/ out_of_usize(x + w)
         \/ wrap(x + w) <= width(v) /\ out_of_usize(y + h)

\* whether an operation of view_overhang on a parent of size W x H leaves
\* the range of its type: x + w and y + h, the two subtractions, -x and -y
clamped_overflows(W, H, x, y, w, h) ==
    \/ out_of_isize(x + isize_wrap(w)) \/ out_of_isize(y + isize_wrap(h))
    \/ out_of_usize(clamp(isize_wrap(x + w), 0, W) - clamp(x, 0, W))
    \/ out_of_usize(clamp(isize_wrap(y + h), 0, H) - clamp(y, 0, H))
    \/ out_of_isize(0 - x) \/ out_of_isize(0 - y)

view_overhang_overflows(v, x, y, w, h) ==
    IF IsOverhang(v)
    THEN \/ out_of_isize(x - v.valid_offset_x) \/ out_of_isize(y - v.valid_offset_y)
         \/ clamped_overflows(v.valid_ref.roi_width, v.valid_ref.roi_height,
                isize_wrap(x - v.valid_offset_x), isize_wrap(y - v.valid_offset_y), w, h)
    ELSE clamped_overflows(width(v), height(v), x, y, w, h)

\* a debug build panics where an operation overflows
View(x, y, w, h) ==
    /\ ~panicked
    /\ \E debug \in Builds :
          IF debug /\ view_is_valid_overflows(cur, x, y, w, h)
          THEN panicked' = TRUE /\ UNCHANGED last /\ Stay
          ELSE /\ UNCHANGED panicked
               /\ LET res == view(cur, x, y, w, h)
                  IN  /\ last' = ViewCall("view", x, y, w, h, res)
                      /\ IF res.some THEN Enter(res.val, x, y) ELSE Stay
    /\ calls' = calls + 1
    /\ UNCHANGED <<image, data, writes>>
    /\ IterUnchanged

ViewMut(x, y, w, h) ==
    /\ ~panicked /\ IsMutable(cur)
    /\ \E debug \in Builds :
          IF debug /\ view_is_valid_overflows(cur, x, y, w, h)
          THEN panicked' = TRUE /\ UNCHANGED last /\ Stay
          ELSE /\ UNCHANGED panicked
               /\ LET res == view_mut(cur, x, y, w, h)
                  IN  /\ last' = ViewCall("view_mut", x, y, w, h, res)
                      /\ IF res.some THEN Enter(res.val, x, y) ELSE Stay
    /\ calls' = calls + 1
    /\ UNCHANGED <<image, data, writes>>
    /\ IterUnchanged

ViewOverhang(x, y, w, h) ==
    /\ ~panicked
    /\ \E debug \in Builds :
          IF debug /\ view_overhang_overflows(cur, x, y, w, h)
          THEN panicked' = TRUE /\ UNCHANGED last /\ Stay
          ELSE /\ UNCHANGED panicked
               /\ last' = ViewCall("view_overhang", x, y, w, h, Some(0))
               /\ Enter(view_overhang(cur, x, y, w, h), x, y)
    /\ calls' = calls + 1
    /\ UNCHANGED <<image, data, writes>>
    /\ IterUnchanged

ViewOverhangMut(x, y, w, h) ==
    /\ ~panicked /\ IsMutable(cur)
    /\ \E debug \in Builds :
          IF debug /\ view_overhang_overflows(cur, x, y, w, h)
          THEN panicked' = TRUE /\ UNCHANGED last /\ Stay
          ELSE /\ UNCHANGED panicked
               /\ last' = ViewCall("view_overhang_mut", x, y, w, h, Some(0))
               /\ Enter(view_overhang_mut(cur, x, y, w, h), x, y)
    /\ calls' = calls + 1
    /\ UNCHANGED <<image, data, writes>>
    /\ IterUnchanged

Get(x, y) ==
    /\ ~panicked
    /\ last' = PixelCall("get", x, y, get(cur, x, y))
    /\ Stay
    /\ UNCHANGED <<image, data, writes, calls, panicked>>
    /\ IterUnchanged

\* *v.get_mut(x, y).unwrap() = 1, when the cell is there
GetMut(x, y) ==
    /\ ~panicked /\ IsMutable(cur) /\ writes < MaxWrites
    /\ LET res == get_mut(cur, x, y)
       IN  /\ last' = PixelCall("get_mut", x, y, res)
           /\ IF res.some
              THEN /\ data' = [data EXCEPT ![res.val + 1] = 1]
                   /\ writes' = writes + 1
              ELSE UNCHANGED <<data, writes>>
    /\ Stay
    /\ UNCHANGED <<image, calls, panicked>>
    /\ IterUnchanged

\* Views: the program makes up to MaxCalls view calls, each on the view the
\* call before returned.
Next ==
    \/ \E x \in Xs, y \in Ys, w \in Widths, h \in Heights :
          calls < MaxCalls /\ View(x, y, w, h)
    \/ \E x \in Xs, y \in Ys, w \in Widths, h \in Heights :
          calls < MaxCalls /\ ViewMut(x, y, w, h)
    \/ \E x \in SignedXs, y \in SignedYs, w \in Widths, h \in Heights :
          calls < MaxCalls /\ ViewOverhang(x, y, w, h)
    \/ \E x \in SignedXs, y \in SignedYs, w \in Widths, h \in Heights :
          calls < MaxCalls /\ ViewOverhangMut(x, y, w, h)

Spec == Init /\ [][Next]_vars

\* Pixels: the program takes at most MaxDepth views and reads and writes
\* cells through what it holds.
NextPixel ==
    \/ \E x \in Xs, y \in Ys, w \in Widths, h \in Heights :
          calls < MaxDepth /\ View(x, y, w, h)
    \/ \E x \in Xs, y \in Ys, w \in Widths, h \in Heights :
          calls < MaxDepth /\ ViewMut(x, y, w, h)
    \/ \E x \in SignedXs, y \in SignedYs, w \in Widths, h \in Heights :
          calls < MaxDepth /\ ViewOverhang(x, y, w, h)
    \/ \E x \in SignedXs, y \in SignedYs, w \in Widths, h \in Heights :
          calls < MaxDepth /\ ViewOverhangMut(x, y, w, h)
    \/ \E x \in Xs, y \in Ys : Get(x, y)
    \/ \E x \in Xs, y \in Ys : GetMut(x, y)

SpecPixel == Init /\ [][NextPixel]_vars

\* Overhangs reaching far: the program takes an overhang view of the buffer,
\* or of a valid sub-view of it, with an origin up to a whole buffer width or
\* height before the parent's corner.
FarXs == (0 - MaxWidth)..MaxWidth
FarYs == (0 - MaxHeight)..MaxHeight

NextReach ==
    \/ \E x \in Xs, y \in Ys, w \in Widths, h \in Heights :
          calls = 0 /\ view_is_valid(cur, x, y, w, h) /\ View(x, y, w, h)
    \/ \E x \in Xs, y \in Ys, w \in Widths, h \in Heights :
          calls = 0 /\ view_is_valid(cur, x, y, w, h) /\ ViewMut(x, y, w, h)
    \/ \E x \in FarXs, y \in FarYs, w \in Widths, h \in Heights :
          calls < MaxCalls /\ ~IsOverhang(cur) /\ ViewOverhang(x, y, w, h)
    \/ \E x \in FarXs, y \in FarYs, w \in Widths, h \in Heights :
          calls < MaxCalls /\ ~IsOverhang(cur) /\ ViewOverhangMut(x, y, w, h)

SpecReach == Init /\ [][NextReach]_vars

(***************************************************************************)
(* The program iterating: it takes one view of the image, asks it for an   *)
(* iterator, and the consumers (the sequential loop, or rayon's tasks)     *)
(* pull from the pieces and split them, in any interleaving.               *)
(***************************************************************************)
\* Iterator / DoubleEndedIterator / Producer, dispatched on the type
it_next(it) ==
    CASE it.kind = "Iter" -> Iter_next(it)
      [] it.kind = "IterMut" -> IterMut_next(it)
      [] it.kind = "IterOverhang" -> IterOverhang_next(it)

it_next_back(it) ==
    CASE it.kind = "Iter" -> Iter_next_back(it)
      [] it.kind = "IterMut" -> IterMut_next_back(it)
      [] it.kind = "IterOverhang" -> IterOverhang_next_back(it)

it_len(it) ==
    CASE it.kind = "Iter" -> Iter_len(it)
      [] it.kind = "IterMut" -> IterMut_len(it)
      [] it.kind = "IterOverhang" -> IterOverhang_len(it)

Halves(l, r, overflow, abort) ==
    [left |-> l, right |-> r, overflow |-> overflow, abort |-> abort]

it_split_at(it, index) ==
    CASE it.kind = "Iter" ->
            LET hs == Iter_split_at(it, index) IN Halves(hs[1], hs[2], FALSE, FALSE)
      [] it.kind = "IterMut" ->
            LET hs == IterMut_split_at(it, index) IN Halves(hs[1], hs[2], FALSE, FALSE)
      [] it.kind = "IterOverhang" ->
            LET hs == IterOverhang_split_at(it, index)
            IN  Halves(hs.left, hs.right, hs.count.overflow, hs.count.abort)

\* width and height exchanged
PixIter_new_mutant(iter, width_, height_) ==
    [kind |-> "PixIter", iter |-> iter, width |-> height_, height |-> width_]

\* PixIter::new / SerializePixIter::new
PixIter_new(iter, width_, height_) ==
    [kind |-> "PixIter", iter |-> iter, width |-> width_, height |-> height_]

SerializePixIter_new(iter, width_, height_) ==
    [kind |-> "SerializePixIter", iter |-> iter, width |-> width_, height |-> height_]

\* PhysicalImage::pix_iter and its variants go through a view of the whole image
PhysicalImage_whole(self) == PhysicalImage_view_unchecked(self, 0, 0, self.width, self.height)
PhysicalImage_whole_mut(self) ==
    PhysicalImage_view_unchecked_mut(self, 0, 0, self.width, self.height)

pix_iter(v) ==
    PixIter_new(
        CASE v.kind = "PhysicalImage" -> ImageRef_pix_iter(PhysicalImage_whole(v))
          [] v.kind = "ImageRef" -> ImageRef_pix_iter(v)
          [] v.kind = "ImageRefMut" -> ImageRefMut_pix_iter(v)
          [] v.kind = "ImageRefOverhang" -> ImageRefOverhang_pix_iter(v)
          [] v.kind = "ImageRefOverhangMut" -> ImageRefOverhangMut_pix_iter(v),
        width(v), height(v))

pix_iter_mut(v) ==
    PixIter_new(
        CASE v.kind = "PhysicalImage" -> ImageRefMut_pix_iter_mut(PhysicalImage_whole_mut(v))
          [] v.kind = "ImageRefMut" -> ImageRefMut_pix_iter_mut(v)
          [] v.kind = "ImageRefOverhangMut" -> ImageRefOverhangMut_pix_iter_mut(v),
        width(v), height(v))

pix_iter_serialized(v) ==
    SerializePixIter_new(
        CASE v.kind = "PhysicalImage" -> ImageRef_pix_iter_serialized(PhysicalImage_whole(v))
          [] v.kind = "ImageRef" -> ImageRef_pix_iter_serialized(v)
          [] v.kind = "ImageRefMut" -> ImageRefMut_pix_iter_serialized(v)
          [] v.kind = "ImageRefOverhang" -> ImageRefOverhang_pix_iter_serialized(v)
          [] v.kind = "ImageRefOverhangMut" -> ImageRefOverhangMut_pix_iter_serialized(v),
        width(v), height(v))

pix_iter_serialized_mut(v) ==
    SerializePixIter_new(
        CASE v.kind = "PhysicalImage" ->
                ImageRefMut_pix_iter_serialized_mut(PhysicalImage_whole_mut(v))
          [] v.kind = "ImageRefMut" -> ImageRefMut_pix_iter_serialized_mut(v)
          [] v.kind = "ImageRefOverhangMut" -> ImageRefOverhangMut_pix_iter_serialized_mut(v),
        width(v), height(v))

\* a live iterator, with the items it yielded from the front and from the back
Piece(it, front, back) == [it |-> it, front |-> front, back |-> back]

Start(pi) ==
    /\ ~panicked /\ iter0 = None
    /\ iter0' = Some(pi)
    /\ pieces' = <<Piece(pi.iter, <<>>, <<>>)>>
    /\ UNCHANGED <<image, data, cur, parent, origin, calls, last, writes, panicked>>

PixIter == Start(pix_iter(cur))

PixIterMut == IsMutable(cur) /\ Start(pix_iter_mut(cur))

PixIterSerialized == Start(pix_iter_serialized(cur))

PixIterSerializedMut == IsMutable(cur) /\ Start(pix_iter_serialized_mut(cur))

ViewsUnchanged == UNCHANGED <<image, cur, parent, origin, calls, last, writes, iter0>>

IsMutIter(it) ==
    it.kind = "IterMut" \/ (it.kind = "IterOverhang" /\ it.iter.kind = "IterMut")

\* the cell an item refers to, if any: an overhang item is itself an Option
ItemCell(it, item) == IF it.kind = "IterOverhang" THEN item ELSE Some(item)

\* the consumer's closure: it stores 1 through every &mut T it is handed
Consume(it, item) ==
    IF item.some /\ IsMutIter(it) /\ ItemCell(it, item.val).some
    THEN [data EXCEPT ![ItemCell(it, item.val).val + 1] = 1]
    ELSE data

\* piece p of the consumers calls next()
IterNext(p) ==
    /\ ~panicked
    /\ LET r == it_next(pieces[p].it)
       IN  IF r.panic
           THEN panicked' = TRUE /\ UNCHANGED <<pieces, data>>
           ELSE /\ UNCHANGED panicked
                /\ data' = Consume(pieces[p].it, r.item)
                /\ pieces' = [pieces EXCEPT ![p] =
                        Piece(r.iter,
                              IF r.item.some THEN Append(@.front, r.item.val) ELSE @.front,
                              @.back)]
    /\ ViewsUnchanged

\* piece p of the consumers calls next_back()
IterNextBack(p) ==
    /\ ~panicked
    /\ LET r == it_next_back(pieces[p].it)
       IN  IF r.panic
           THEN panicked' = TRUE /\ UNCHANGED <<pieces, data>>
           ELSE /\ UNCHANGED panicked
                /\ data' = Consume(pieces[p].it, r.item)
                /\ pieces' = [pieces EXCEPT ![p] =
                        Piece(r.iter, @.front,
                              IF r.item.some THEN Append(@.back, r.item.val) ELSE @.back)]
    /\ ViewsUnchanged

\* rayon splits piece p at index k <= len: the left half takes its place,
\* the right half the place after it
SplitAt(p, k) ==
    /\ ~panicked /\ iter0.val.kind = "PixIter"
    /\ LET hs == it_split_at(pieces[p].it, k)
       IN  \E debug \in Builds :
             IF hs.abort \/ (debug /\ hs.overflow)
             THEN panicked' = TRUE /\ UNCHANGED pieces
             ELSE /\ UNCHANGED panicked
                  /\ pieces' = SubSeq(pieces, 1, p - 1)
                               \o <<Piece(hs.left, pieces[p].front, <<>>),
                                    Piece(hs.right, <<>>, pieces[p].back)>>
                               \o SubSeq(pieces, p + 1, Len(pieces))
    /\ UNCHANGED data
    /\ ViewsUnchanged

Reverse(s) == [i \in 1..Len(s) |-> s[Len(s) + 1 - i]]

\* the items the first n pieces have yielded, each piece's in the order of
\* its positions: this is what the collecting consumers write, leaf by leaf
RECURSIVE Yielded(_, _)
Yielded(ps, n) ==
    IF n = 0 THEN <<>> ELSE Yielded(ps, n - 1) \o ps[n].front \o Reverse(ps[n].back)

\* PhysicalImage::with_data
PhysicalImage_with_data(width_, height_, data_) ==
    [kind |-> "PhysicalImage", width |-> width_, height |-> height_, data |-> data_]

CollectCall(img) == [op |-> "collect_image", image |-> img]

\* collect_image, once every piece is drained: the items go to a new buffer
\* in the order of the pieces; with_data's debug_assert_eq! checks the count
CollectImage ==
    /\ ~panicked /\ iter0.some /\ last.op # "collect_image"
    /\ \A p \in 1..Len(pieces) : it_len(pieces[p].it) = 0
    /\ LET items == Yielded(pieces, Len(pieces))
           img == PhysicalImage_with_data(iter0.val.width, iter0.val.height, items)
       IN  \E debug \in Builds :
             IF debug /\ Len(items) # iter0.val.width * iter0.val.height
             THEN panicked' = TRUE /\ UNCHANGED last
             ELSE UNCHANGED panicked /\ last' = CollectCall(img)
    /\ UNCHANGED <<image, data, cur, parent, origin, calls, writes, pieces, iter0>>

NextIter ==
    \/ \E x \in Xs, y \in Ys, w \in Widths, h \in Heights :
          calls < MaxDepth /\ iter0 = None /\ View(x, y, w, h)
    \/ \E x \in Xs, y \in Ys, w \in Widths, h \in Heights :
          calls < MaxDepth /\ iter0 = None /\ ViewMut(x, y, w, h)
    \/ \E x \in SignedXs, y \in SignedYs, w \in Widths, h \in Heights :
          calls < MaxDepth /\ iter0 = None /\ ViewOverhang(x, y, w, h)
    \/ \E x \in SignedXs, y \in SignedYs, w \in Widths, h \in Heights :
          calls < MaxDepth /\ iter0 = None /\ ViewOverhangMut(x, y, w, h)
    \/ PixIter
    \/ PixIterMut
    \/ PixIterSerialized
    \/ PixIterSerializedMut
    \/ \E p \in 1..Len(pieces) : IterNext(p)
    \/ \E p \in 1..Len(pieces) : IterNextBack(p)
    \/ \E p \in 1..Len(pieces) : \E k \in 0..it_len(pieces[p].it) :
          Len(pieces) < MaxPieces /\ SplitAt(p, k)
    \/ CollectImage

\* iteration runs on the largest image
InitIter == Init /\ image.width = MaxWidth /\ image.height = MaxHeight

SpecIter == InitIter /\ [][NextIter]_vars

\* Writes and reads side by side: the program takes at most MaxDepth views
\* of a buffer, reads and writes cells through what it holds, then iterates
\* over it, splitting the iterator MaxDepth times at most.
NextFrame ==
    \/ \E x \in Xs, y \in Ys, w \in Widths, h \in Heights :
          calls < MaxDepth /\ iter0 = None /\ last = NoCall /\ View(x, y, w, h)
    \/ \E x \in Xs, y \in Ys, w \in Widths, h \in Heights :
          calls < MaxDepth /\ iter0 = None /\ last = NoCall /\ ViewMut(x, y, w, h)
    \/ \E x \in SignedXs, y \in SignedYs, w \in Widths, h \in Heights :
          calls < MaxDepth /\ iter0 = None /\ last = NoCall /\ ViewOverhang(x, y, w, h)
    \/ \E x \in SignedXs, y \in SignedYs, w \in Widths, h \in Heights :
          calls < MaxDepth /\ iter0 = None /\ last = NoCall /\ ViewOverhangMut(x, y, w, h)
    \/ \E x \in Xs, y \in Ys : iter0 = None /\ Get(x, y)
    \/ \E x \in Xs, y \in Ys : iter0 = None /\ GetMut(x, y)
    \/ PixIter
    \/ PixIterMut
    \/ PixIterSerialized
    \/ PixIterSerializedMut
    \/ \E p \in 1..Len(pieces) : IterNext(p)
    \/ \E p \in 1..Len(pieces) : IterNextBack(p)
    \/ \E p \in 1..Len(pieces) : \E k \in 0..it_len(pieces[p].it) :
          Len(pieces) <= MaxDepth /\ SplitAt(p, k)

SpecFrame == InitIter /\ [][NextFrame]_vars

\* Fork and join: rayon's bridge over the producer.  A task holding a piece
\* of two items or more splits it somewhere inside; a task holding a piece
\* of one item drains it with next.
Fork(p, k) ==
    /\ it_len(pieces[p].it) >= 2 /\ 1 <= k /\ k <= it_len(pieces[p].it) - 1
    /\ SplitAt(p, k)

Drain(p) == it_len(pieces[p].it) = 1 /\ IterNext(p)

ForkJoin ==
    \/ \E p \in 1..Len(pieces) : \E k \in 1..(MaxWidth * MaxHeight) : Fork(p, k)
    \/ \E p \in 1..Len(pieces) : Drain(p)

NextFork ==
    \/ \E x \in Xs, y \in Ys, w \in Widths, h \in Heights :
          calls < MaxDepth /\ iter0 = None /\ View(x, y, w, h)
    \/ \E x \in Xs, y \in Ys, w \in Widths, h \in Heights :
          calls < MaxDepth /\ iter0 = None /\ ViewMut(x, y, w, h)
    \/ \E x \in SignedXs, y \in SignedYs, w \in Widths, h \in Heights :
          calls < MaxDepth /\ iter0 = None /\ ViewOverhang(x, y, w, h)
    \/ \E x \in SignedXs, y \in SignedYs, w \in Widths, h \in Heights :
          calls < MaxDepth /\ iter0 = None /\ ViewOverhangMut(x, y, w, h)
    \/ PixIter
    \/ PixIterMut
    \/ ForkJoin

\* the pool runs every task that is ready
SpecFork == InitIter /\ [][NextFork]_vars /\ WF_vars(ForkJoin)

\* Requests at the ends of the integer ranges: the program makes one view
\* call on the buffer, the origin of the request being small or the largest
\* usize (for view_overhang: the least or the largest isize), and iterates
\* over the plain view it got.  The x axis stands for both in the checked
\* calls.
WideXs == Xs \cup {USIZE_MAX}
WideSignedXs == SignedXs \cup {ISIZE_MIN, ISIZE_MAX}
WideSignedYs == SignedYs \cup {ISIZE_MIN, ISIZE_MAX}

NextWide ==
    \/ \E x \in WideXs, y \in Ys, w \in Widths, h \in Heights :
          calls = 0 /\ iter0 = None /\ View(x, y, w, h)
    \/ \E x \in WideXs, y \in Ys, w \in Widths, h \in Heights :
          calls = 0 /\ iter0 = None /\ ViewMut(x, y, w, h)
    \/ \E x \in WideSignedXs, y \in WideSignedYs, w \in Widths, h \in Heights :
          calls = 0 /\ iter0 = None /\ ViewOverhang(x, y, w, h)
    \/ \E x \in WideSignedXs, y \in WideSignedYs, w \in Widths, h \in Heights :
          calls = 0 /\ iter0 = None /\ ViewOverhangMut(x, y, w, h)
    \/ ~IsOverhang(cur) /\ PixIter
    \/ ~IsOverhang(cur) /\ PixIterSerialized
    \/ \E p \in 1..Len(pieces) : IterNext(p)
    \/ \E p \in 1..Len(pieces) : IterNextBack(p)
    \/ \E p \in 1..Len(pieces) : \E k \in 0..it_len(pieces[p].it) :
          Len(pieces) <= MaxDepth /\ SplitAt(p, k)

SpecWide == Init /\ [][NextWide]_vars

(***************************************************************************)
(* The overlap counter on its own: an overhang iterator of any geometry    *)
(* that view_overhang can build, asked for the count of any sub-range.     *)
(***************************************************************************)
Outers == 0..MaxOuter

InitCount ==
    /\ image = PhysicalImage_new(0, 0)
    /\ data = <<>>
    /\ panicked = FALSE
    /\ writes = 0
    /\ cur = image
    /\ parent = image
    /\ origin = [x |-> 0, y |-> 0]
    /\ calls = 0
    /\ last = NoCall
    /\ pieces = <<>>
    /\ \E w \in Outers, h \in Outers, iw \in Outers, ih \in Outers,
          ox \in Outers, oy \in Outers :
          /\ ox + iw <= w /\ oy + ih <= h
          /\ iter0 = Some(PixIter_new(
                 IterOverhang_new(Iter_new(iw, 0, iw, Range(0, iw * ih)),
                                  iw, ih, ox, oy, w, h),
                 w, h))

CountCall(begin, end, res) ==
    [op |-> "count_in_rect", begin |-> begin, end |-> end, res |-> res]

\* self.count_in_rect(begin..end), once
CountInRect(begin, end) ==
    /\ ~panicked /\ last = NoCall /\ begin <= end
    /\ LET c == IterOverhang_count_in_rect(iter0.val.iter, Range(begin, end))
       IN  \E debug \in Builds :
             IF c.abort \/ (debug /\ c.overflow)
             THEN panicked' = TRUE /\ last' = CountCall(begin, end, None)
             ELSE UNCHANGED panicked /\ last' = CountCall(begin, end, Some(c.val))
    /\ UNCHANGED <<image, data, cur, parent, origin, calls, writes, pieces, iter0>>

NextCount ==
    \E begin \in 0..(MaxOuter * MaxOuter), end \in 0..(MaxOuter * MaxOuter) :
        end <= Range_len(iter0.val.iter.range) /\ CountInRect(begin, end)

SpecCount == InitCount /\ [][NextCount]_vars

(***************************************************************************)
(* Properties of the views (Spec)                                          *)
(***************************************************************************)
Plain(v) == ~IsOverhang(v)

\* the view the last call was made on
Callee == IF last.op \in {"view", "view_mut"} /\ ~last.present THEN cur ELSE parent

Probes == 0..(MaxWidth + 1)

OverhangCalled == last.op \in {"view_overhang", "view_overhang_mut"} /\ Plain(parent)

\* C1: an overhang view O = P.view_overhang(x,y,w,h) of a buffer, view or
\* mutable view P of size W x H has the requested size w x h, and O.get(i,j)
\* for (i,j) inside w x h is P's cell (x+i, y+j) where 0 <= x+i < W and
\* 0 <= y+j < H, and is absent everywhere else.
C1_OverhangGet ==
    OverhangCalled =>
        /\ width(cur) = last.w /\ height(cur) = last.h
        /\ \A i \in 0..(last.w - 1), j \in 0..(last.h - 1) :
              get(cur, i, j) =
                  IF /\ 0 <= last.x + i /\ last.x + i < width(parent)
                     /\ 0 <= last.y + j /\ last.y + j < height(parent)
                  THEN get(parent, last.x + i, last.y + j)
                  ELSE None

\* an overhang view that hangs over the parent's top-left corner and still
\* shows one of its cells
C1_Witness ==
    /\ OverhangCalled /\ last.x < 0 /\ last.y < 0
    /\ \E i \in 0..(last.w - 1), j \in 0..(last.h - 1) :
          get(cur, i, j).some /\ ~get(cur, 0, 0).some

SubViewCalled == last.op \in {"view", "view_mut"} /\ last.present

\* C2: a present sub-view V = P.view(ox,oy,w,h) reads P's cell (x+ox, y+oy)
\* at every (x,y) inside w x h, and V.get / V.get_mut are absent at every
\* (x,y) with x >= w or y >= h, also where P has a cell at (x+ox, y+oy).
C2_SubViewGet ==
    SubViewCalled =>
        /\ \A x \in 0..(last.w - 1), y \in 0..(last.h - 1) :
              get(cur, x, y) = get(parent, x + last.x, y + last.y)
        /\ \A x \in Probes, y \in Probes :
              (x >= last.w \/ y >= last.h) =>
                  /\ get(cur, x, y) = None
                  /\ IsMutable(cur) => get_mut(cur, x, y) = None

\* a sub-view with a non-zero origin showing a parent cell, and a coordinate
\* outside it at which the parent has a cell
C2_Witness ==
    /\ SubViewCalled /\ last.x + last.y > 0 /\ parent.kind = "ImageRefMut"
    /\ get(cur, 0, 0).some
    /\ \E x \in Probes, y \in Probes :
          /\ x >= last.w /\ get(parent, x + last.x, y + last.y).some
          /\ get_mut(cur, x, y) = None

PlainViewCalled == last.op \in {"view", "view_mut"} /\ Plain(Callee)

\* C3: on a buffer, view or mutable view of size W x H, view and view_mut
\* return absent iff view_is_valid is false, and view_is_valid(x,y,w,h) is
\* true iff x+w <= W and y+h <= H, W and H being the size of the view the
\* call is made on.
C3_ViewAbsentIffInvalid ==
    PlainViewCalled =>
        /\ last.present <=> view_is_valid(Callee, last.x, last.y, last.w, last.h)
        /\ view_is_valid(Callee, last.x, last.y, last.w, last.h) <=>
              /\ last.x + last.w <= width(Callee)
              /\ last.y + last.h <= height(Callee)

\* a request refused by a sub-view although the root buffer would hold it
C3_Witness ==
    /\ PlainViewCalled /\ ~last.present /\ Callee.kind \in {"ImageRef", "ImageRefMut"}
    /\ last.x + last.w <= image.width /\ last.y + last.h <= image.height
    /\ last.w > 0 /\ last.h > 0

(***************************************************************************)
(* Properties of the pixel accessors (SpecPixel)                           *)
(***************************************************************************)
BufferCalled == last.op \in {"get", "get_mut"} /\ cur.kind = "PhysicalImage"

\* C4: on a buffer of size W x H, get(x,y) and get_mut(x,y) are absent iff
\* x >= W or y >= H, and otherwise return the cell at the row-major index
\* W*y + x of data; after a write through get_mut(x,y), get(x,y) reads the
\* written value, which sits at data[W*y + x].
C4_BufferGet ==
    BufferCalled =>
        /\ ~last.res.some <=> (last.x >= cur.width \/ last.y >= cur.height)
        /\ last.res.some => last.res.val = cur.width * last.y + last.x
        /\ (last.op = "get_mut" /\ last.res.some) =>
              /\ get(cur, last.x, last.y).some
              /\ data[get(cur, last.x, last.y).val + 1] = 1
              /\ data[cur.width * last.y + last.x + 1] = 1

\* a write to the last cell of a buffer with more than one row and column
C4_Witness ==
    /\ BufferCalled /\ last.op = "get_mut" /\ last.res.some
    /\ last.x > 0 /\ last.y > 0
    /\ data[cur.width * last.y + last.x + 1] = 1

(***************************************************************************)
(* Properties of the overlap counter (SpecCount)                           *)
(***************************************************************************)
\* the positions of [begin, end) that lie inside the valid window, one by one
PresentIn(it, begin, end) ==
    Cardinality({i \in begin..(end - 1) :
        IterOverhang_in_rect(it, i % it.width, i \div it.width)})

CountCalled ==
    /\ last.op = "count_in_rect"
    /\ iter0.val.iter.iter_width >= 1 /\ iter0.val.iter.iter_height >= 1

\* C7: with a valid window of at least one row and one column lying inside
\* the outer rectangle, count_in_rect(begin..end) returns, in every build,
\* the number of indices i of [begin, end) whose position
\* (i mod width, i div width) is inside the window.
C7_CountInRect ==
    CountCalled => last.res = Some(PresentIn(iter0.val.iter, last.begin, last.end))

\* a window touching no edge of the outer rectangle, and a range that starts
\* and ends inside rows of the window
C7_Witness ==
    /\ CountCalled
    /\ LET it == iter0.val.iter
       IN  /\ it.offset_x > 0 /\ it.offset_x + it.iter_width < it.width
           /\ it.offset_y > 0 /\ it.offset_y + it.iter_height < it.height
           /\ it.iter_height >= 2
           /\ IterOverhang_in_rect(it, last.begin % it.width, last.begin \div it.width)
           /\ IterOverhang_in_rect(it, last.end % it.width, last.end \div it.width)
           /\ last.res.some /\ last.res.val >= 2

(***************************************************************************)
(* Properties of the iterators (SpecIter)                                  *)
(***************************************************************************)
Started == iter0.some

It0 == iter0.val.iter

\* what an iterator yields when drained from the front, and from the back
RECURSIVE Traverse(_)
Traverse(it) ==
    LET r == it_next(it)
    IN  IF r.panic \/ ~r.item.some THEN <<>> ELSE <<r.item.val>> \o Traverse(r.iter)

RECURSIVE TraverseBack(_)
TraverseBack(it) ==
    LET r == it_next_back(it)
    IN  IF r.panic \/ ~r.item.some THEN <<>> ELSE <<r.item.val>> \o TraverseBack(r.iter)

\* everything a piece has yielded and will yield, in front-to-back order
Whole(pc) == pc.front \o Traverse(pc.it) \o Reverse(pc.back)

\* the first n pieces, left to right
RECURSIVE Joined(_, _)
Joined(ps, n) == IF n = 0 THEN <<>> ELSE Joined(ps, n - 1) \o Whole(ps[n])

PlainIter == Started /\ It0.kind \in {"Iter", "IterMut"}

\* C5: however an Iter or IterMut has been split (at any k in [0, len], to
\* any depth) and however far its pieces have been consumed from the front
\* and from the back, the pieces read left to right are the front-to-back
\* traversal of the unsplit iterator, and draining a piece with next_back
\* yields its front-to-back traversal reversed.
C5_SplitOrder ==
    PlainIter =>
        /\ ~panicked
        /\ Joined(pieces, Len(pieces)) = Traverse(It0)
        /\ \A p \in 1..Len(pieces) :
              TraverseBack(pieces[p].it) = Reverse(Traverse(pieces[p].it))

\* two splits deep, no half empty, items taken from the front and the back
C5_Witness ==
    /\ PlainIter /\ Len(pieces) = 3
    /\ \A p \in 1..3 : Len(Whole(pieces[p])) >= 1
    /\ \E p \in 1..3 : Len(pieces[p].front) >= 1
    /\ \E p \in 1..3 : Len(pieces[p].back) >= 1

OverhangIter == Started /\ It0.kind = "IterOverhang"

\* C6: however an overhang iterator has been split (at any k in [0, len], to
\* any depth), every split returns, the inner iterator of every piece covers
\* exactly the present positions of the piece's outer range, and the pieces
\* read left to right yield the present/absent items of the unsplit iterator.
C6_OverhangSplit ==
    OverhangIter =>
        /\ ~panicked
        /\ Joined(pieces, Len(pieces)) = Traverse(It0)
        /\ \A p \in 1..Len(pieces) :
              LET it == pieces[p].it
              IN  it.iter.range =
                      Range(It0.iter.range.start + PresentIn(It0, 0, it.range.start),
                            It0.iter.range.start + PresentIn(It0, 0, it.range.end))

\* the range a piece was given: what is left of it and what it has yielded
Home(pc) == Range(pc.it.range.start - Len(pc.front), pc.it.range.end + Len(pc.back))

\* the cells among a sequence of items
CellsOf(items) ==
    IF It0.kind = "IterOverhang"
    THEN LET present == SelectSeq(items, LAMBDA v : v.some)
         IN  [i \in 1..Len(present) |-> present[i].val]
    ELSE items

Written == {c \in 0..(Len(data) - 1) : data[c + 1] = 1}

Range_set(s) == {s[i] : i \in 1..Len(s)}

\* C8: every split_at(k), k in [0, len], that returns leaves halves over
\* exactly [start, start+k) and [start+k, end): the ranges the live pieces
\* were given lie side by side, disjoint, and cover the original range; and
\* no cell is written except those next and next_back handed out.
C8_SplitPartition ==
    Started =>
        /\ Home(pieces[1]).start = It0.range.start
        /\ Home(pieces[Len(pieces)]).end = It0.range.end
        /\ \A p \in 1..(Len(pieces) - 1) : Home(pieces[p]).end = Home(pieces[p + 1]).start
        /\ \A p \in 1..Len(pieces) : pieces[p].it.range.start <= pieces[p].it.range.end
        /\ \A p \in 1..Len(pieces), q \in 1..Len(pieces) :
              p < q => pieces[p].it.range.end <= pieces[q].it.range.start
        /\ Written =
              IF IsMutIter(It0)
              THEN Range_set(CellsOf(Yielded(pieces, Len(pieces))))
              ELSE {}

\* three live pieces of a mutable iterator, two of them not empty, one cell
\* written so far
C8_Witness ==
    /\ Started /\ IsMutIter(It0) /\ Len(pieces) = 3 /\ ~panicked
    /\ it_len(pieces[1].it) >= 1 /\ it_len(pieces[3].it) >= 1
    /\ Cardinality(Written) = 1

MutableIter == Started /\ IsMutIter(It0)

\* the cells of the view the iterator was taken from
ViewCells ==
    {get(cur, x, y).val : <<x, y>> \in
        {c \in (0..(width(cur) - 1)) \X (0..(height(cur) - 1)) : get(cur, c[1], c[2]).some}}

\* C9: under every interleaving of next, next_back and split_at on the
\* pieces of a mutable iterator, no cell is handed out twice, and the cells
\* handed out together with those still to come are the cells of the view,
\* each once.
C9_MutableOnce ==
    MutableIter =>
        LET out == CellsOf(Yielded(pieces, Len(pieces)))
            all == CellsOf(Joined(pieces, Len(pieces)))
        IN  /\ Cardinality(Range_set(out)) = Len(out)
            /\ Cardinality(Range_set(all)) = Len(all)
            /\ Range_set(all) = ViewCells

\* three tasks have drained their pieces of a mutable iterator over at least
\* three cells
C9_Witness ==
    /\ MutableIter /\ Len(pieces) = 3
    /\ \A p \in 1..3 : it_len(pieces[p].it) = 0 /\ Len(Whole(pieces[p])) >= 1
    /\ Cardinality(Written) >= 3

SequentialIter == Started /\ iter0.val.kind = "SerializePixIter" /\ Plain(cur)

\* C10: the sequential iterator of a view of size w x h at origin (ox, oy)
\* in a buffer of stride S yields w*h items, the i-th being the buffer cell
\* at row oy + (i div w), column ox + (i mod w), which is the view's own
\* cell (i mod w, i div w).
C10_SequentialOrder ==
    SequentialIter =>
        LET w == width(cur)
            items == Whole(pieces[1])
        IN  /\ Len(items) = w * height(cur)
            /\ \A i \in 0..(Len(items) - 1) :
                  /\ items[i + 1] = image.width * (origin.y + (i \div w)) + origin.x + (i % w)
                  /\ Some(items[i + 1]) = get(cur, i % w, i \div w)

\* a view of two rows, narrower than the buffer and off its left edge, fully
\* traversed
C10_Witness ==
    /\ SequentialIter /\ cur.kind = "ImageRef"
    /\ cur.roi_width < cur.base_width /\ cur.roi_x > 0 /\ cur.roi_height >= 2
    /\ Len(pieces[1].front) = width(cur) * height(cur)
    /\ Len(pieces[1].front) >= 2

Unsplit == Started /\ Len(pieces) = 1

\* C11: while an Iter, IterMut or IterOverhang is only pulled from (next and
\* next_back in any interleaving), its length is the initial length minus
\* the number of items returned; next has returned the first items of the
\* traversal in ascending order and next_back the last ones in descending
\* order, the positions left being exactly those in between; and at length 0
\* both next and next_back return None and leave the iterator as it is.
C11_PullBothEnds ==
    Unsplit =>
        LET pc == pieces[1]
            all == Traverse(It0)
            n == Len(all)
        IN  /\ ~it_next(pc.it).panic /\ ~it_next_back(pc.it).panic
            /\ it_len(pc.it) = it_len(It0) - Len(pc.front) - Len(pc.back)
            /\ pc.it.range.start = It0.range.start + Len(pc.front)
            /\ pc.it.range.end = It0.range.end - Len(pc.back)
            /\ Len(pc.front) + Len(pc.back) <= n
            /\ \A i \in 1..Len(pc.front) : pc.front[i] = all[i]
            /\ \A j \in 1..Len(pc.back) : pc.back[j] = all[n + 1 - j]
            /\ it_len(pc.it) = 0 =>
                  /\ it_next(pc.it) = Step(pc.it, None, FALSE)
                  /\ it_next_back(pc.it) = Step(pc.it, None, FALSE)

\* an overhang iterator with present and absent positions, drained from both
\* ends
C11_Witness ==
    /\ Unsplit /\ It0.kind = "IterOverhang"
    /\ it_len(pieces[1].it) = 0
    /\ Len(pieces[1].front) >= 1 /\ Len(pieces[1].back) >= 2
    /\ \E j \in 1..Len(pieces[1].back) : pieces[1].back[j].some
    /\ \E j \in 1..Len(pieces[1].back) : ~pieces[1].back[j].some

OverhangViewIter == OverhangIter /\ IsOverhang(cur)

\* C12: the iterator of an overhang view O of size w x h yields w*h items,
\* the i-th being O.get(i mod w, i div w); and while it is only pulled from,
\* from the front or from the back, its inner iterator has given up exactly
\* one element per present position passed and none per absent position.
C12_OverhangItems ==
    OverhangViewIter =>
        LET w == width(cur)
            items == Joined(pieces, Len(pieces))
        IN  /\ Len(items) = w * height(cur)
            /\ \A i \in 0..(Len(items) - 1) : items[i + 1] = get(cur, i % w, i \div w)
            /\ Unsplit =>
                  LET it == pieces[1].it
                  IN  /\ it.iter.range.start =
                            It0.iter.range.start + PresentIn(It0, 0, it.range.start)
                      /\ it.iter.range.end =
                            It0.iter.range.end - PresentIn(It0, it.range.end, It0.range.end)

\* an overhang view hanging over the parent's left or top edge, pulled from
\* both ends, a present and an absent position passed at the front
C12_Witness ==
    /\ OverhangViewIter /\ Unsplit
    /\ cur.valid_offset_x + cur.valid_offset_y > 0
    /\ \E i \in 1..Len(pieces[1].front) : pieces[1].front[i].some
    /\ \E i \in 1..Len(pieces[1].front) : ~pieces[1].front[i].some
    /\ \E j \in 1..Len(pieces[1].back) : pieces[1].back[j].some

Collected == last.op = "collect_image" /\ Plain(cur)

\* C13: collect_image on the full iterator of a buffer or sub-view of size
\* w x h, parallel under any splits and any schedule or sequential, gives a
\* buffer of width w and height h with w*h cells, whose cell (x,y) is the
\* view's cell (x,y).
C13_CollectImage ==
    Collected =>
        LET img == last.image
        IN  /\ img.width = width(cur) /\ img.height = height(cur)
            /\ Len(img.data) = img.width * img.height
            /\ \A x \in 0..(width(cur) - 1), y \in 0..(height(cur) - 1) :
                  /\ PhysicalImage_is_valid(img, x, y)
                  /\ Some(img.data[PhysicalImage_get_unchecked(img, x, y) + 1])
                        = get(cur, x, y)

\* a narrow sub-view of two rows collected by three tasks
C13_Witness ==
    /\ Collected /\ iter0.val.kind = "PixIter" /\ Len(pieces) = 3
    /\ cur.kind \in {"ImageRef", "ImageRefMut"}
    /\ cur.roi_width < cur.base_width /\ cur.roi_height >= 2
    /\ \E p \in 1..3 : Len(pieces[p].back) >= 1

\* C14: through any chain of view, view_mut, view_overhang and
\* view_overhang_mut calls starting at the buffer, a cell that get(i,j) of
\* the final view returns is the buffer's cell at (i,j) plus the sum of the
\* signed origins of the calls of the chain.
C14_ChainDirect ==
    \A i \in Probes, j \in Probes :
        get(cur, i, j).some =>
            /\ 0 <= origin.x + i /\ origin.x + i < image.width
            /\ 0 <= origin.y + j /\ origin.y + j < image.height
            /\ get(cur, i, j) = get(image, origin.x + i, origin.y + j)
            /\ get(cur, i, j).val = image.width * (origin.y + j) + origin.x + i

\* an overhang of an overhang that hangs over the buffer's left or top edge,
\* showing a cell
C14_Witness ==
    /\ calls = 2 /\ IsOverhang(parent) /\ IsOverhang(cur)
    /\ parent.valid_offset_x + parent.valid_offset_y > 0
    /\ last.x # 0 /\ last.y # 0
    /\ \E i \in Probes, j \in Probes : get(cur, i, j).some

MutOverhangHeld == cur.kind = "ImageRefOverhangMut"

\* the present positions of the overhang view held: those of its frame that
\* lie in its valid rectangle
PresentAt(x, y) ==
    /\ x < width(cur) /\ y < height(cur)
    /\ Rectangle_contains(valid_rect(cur), x, y)

\* C15: on a mutable overhang view, get_mut and get return the same cell at
\* every present position and are both absent at every absent position; a
\* value written through get_mut(x,y) is what get(x,y) reads afterwards.
C15_MutOverhangGet ==
    MutOverhangHeld =>
        /\ \A x \in Probes, y \in Probes :
              /\ get_mut(cur, x, y) = get(cur, x, y)
              /\ get(cur, x, y).some <=> PresentAt(x, y)
        /\ (last.op = "get_mut" /\ last.res.some) =>
              /\ last.res = get(cur, last.x, last.y)
              /\ data[get(cur, last.x, last.y).val + 1] = 1
        /\ (last.op = "get_mut" /\ ~last.res.some) => ~PresentAt(last.x, last.y)

\* a write through a mutable overhang view hanging over the buffer's left
\* edge, at a position right of the absent column
C15_Witness ==
    /\ MutOverhangHeld /\ cur.valid_offset_x > 0
    /\ last.op = "get_mut" /\ last.res.some /\ last.x > 0
    /\ ~get(cur, 0, last.y).some
    /\ data[last.res.val + 1] = 1

OverhangViewCalled == last.op \in {"view", "view_mut"} /\ IsOverhang(Callee)

\* C16: on an overhang view whose valid rectangle is (offset_x, offset_y,
\* vw, vh), view(x,y,w,h) and view_mut(x,y,w,h) are present iff
\* x >= offset_x, y >= offset_y, (x - offset_x) + w <= vw and
\* (y - offset_y) + h <= vh; a present result shows no absent cell.
C16_OverhangViewValid ==
    OverhangViewCalled =>
        LET r == valid_rect(Callee)
        IN  /\ last.present <=>
                  /\ last.x >= r.x /\ last.y >= r.y
                  /\ (last.x - r.x) + last.w <= r.w
                  /\ (last.y - r.y) + last.h <= r.h
            /\ last.present =>
                  \A i \in 0..(last.w - 1), j \in 0..(last.h - 1) :
                      get(Callee, last.x + i, last.y + j).some

\* a request inside the overhang's frame refused because it reaches an
\* absent cell
C16_Witness ==
    /\ OverhangViewCalled /\ ~last.present
    /\ last.w > 0 /\ last.h > 0
    /\ last.x + last.w <= width(Callee) /\ last.y + last.h <= height(Callee)
    /\ \E i \in 0..(last.w - 1), j \in 0..(last.h - 1) :
          get(Callee, last.x + i, last.y + j).some
    /\ \E i \in 0..(last.w - 1), j \in 0..(last.h - 1) :
          ~get(Callee, last.x + i, last.y + j).some

OverhangHeld == IsOverhang(cur)

\* C17: the valid_rect() of an overhang view is its inner view's rectangle
\* translated by (offset_x, offset_y); get(x,y) is absent iff (x,y) lies
\* outside that rectangle, and otherwise is inner.get(x - offset_x,
\* y - offset_y).
C17_OverhangValidRect ==
    OverhangHeld =>
        LET inner == cur.valid_ref
            ox == cur.valid_offset_x
            oy == cur.valid_offset_y
        IN  /\ valid_rect(cur) = Rectangle(ox, oy, width(inner), height(inner))
            /\ \A x \in Probes, y \in Probes :
                  LET inside == /\ ox <= x /\ x < ox + width(inner)
                                /\ oy <= y /\ y < oy + height(inner)
                  IN  /\ ~get(cur, x, y).some <=> ~inside
                      /\ inside => get(cur, x, y) = get(inner, x - ox, y - oy)

\* an overhang view whose inner view starts one column and one row in
C17_Witness ==
    /\ OverhangHeld /\ cur.valid_offset_x > 0 /\ cur.valid_offset_y > 0
    /\ get(cur, cur.valid_offset_x, cur.valid_offset_y).some
    /\ ~get(cur, 0, 0).some

(***************************************************************************)
(* Properties of far-reaching overhangs (SpecReach)                        *)
(***************************************************************************)
OverhangTaken == last.op \in {"view_overhang", "view_overhang_mut"}

\* C18: for every overhang view produced by view_overhang(x,y,w,h), the
\* inner view's rectangle translated by the offsets lies inside the
\* overhang's own frame: offset_x + inner.width() <= w and
\* offset_y + inner.height() <= h.
C18_InnerInsideFrame ==
    OverhangTaken =>
        /\ cur.valid_offset_x + width(cur.valid_ref) <= last.w
        /\ cur.valid_offset_y + height(cur.valid_ref) <= last.h

\* the request misses the parent on the x axis, on the y axis
MissX == last.x + last.w <= 0 \/ last.x >= width(parent)
MissY == last.y + last.h <= 0 \/ last.y >= height(parent)

Missed == OverhangTaken /\ (MissX \/ MissY)

AllAbsent == \A i \in Probes, j \in Probes : ~get(cur, i, j).some

\* C19 as stated: a request that does not intersect the parent gives an
\* inner view of size (0,0), both its width and its height being 0, and
\* get(i,j) is absent for every (i,j).
C19_MissGivesZeroZero ==
    Missed =>
        /\ width(cur.valid_ref) = 0 /\ height(cur.valid_ref) = 0
        /\ AllAbsent

\* C19 as the code has it: a request that does not intersect the parent
\* gives an empty inner view, its width being 0 when the request misses on
\* the x axis and its height being 0 when it misses on the y axis, and
\* get(i,j) is absent for every (i,j).
C19_MissGivesEmpty ==
    Missed =>
        /\ MissX => width(cur.valid_ref) = 0
        /\ MissY => height(cur.valid_ref) = 0
        /\ AllAbsent

\* a request right of the parent on rows the parent has: the inner view is
\* empty but keeps a height
C19_Witness ==
    /\ Missed /\ MissX /\ ~MissY
    /\ last.w > 0 /\ last.h > 0
    /\ width(cur.valid_ref) = 0 /\ height(cur.valid_ref) > 0

(***************************************************************************)
(* The index range of an iterator                                          *)
(***************************************************************************)
\* the logical indexes of a range, as a set
Range_indexes(r) == r.start..(r.end - 1)

\* the cells of the view the iterator was created from
ViewSize == iter0.val.width * iter0.val.height

\* the index ImageRef::pix_iter gives to the first cell of the view: the rows
\* above the view count, at the view's own width
FirstIndex ==
    IF cur.kind \in {"ImageRef", "ImageRefMut"} THEN cur.roi_y * cur.roi_width ELSE 0

Flat(v) == IF IsOverhang(v) THEN v.valid_ref ELSE v

\* the origin of a view in the buffer; the buffer's own is (0, 0)
roi_x(v) == IF v.kind = "PhysicalImage" THEN 0 ELSE Flat(v).roi_x
roi_y(v) == IF v.kind = "PhysicalImage" THEN 0 ELSE Flat(v).roi_y

\* the origin the last call handed to view_unchecked of the callee's record:
\* the request's own, less the callee's offsets when the callee is an
\* overhang; limited to the callee's record when the call is view_overhang
StepX ==
    LET x == IF IsOverhang(parent) THEN last.x - parent.valid_offset_x ELSE last.x
    IN  IF last.op \in {"view", "view_mut"} THEN x
        ELSE IF x < 0 THEN 0
        ELSE IF x > width(Flat(parent)) THEN width(Flat(parent)) ELSE x

StepY ==
    LET y == IF IsOverhang(parent) THEN last.y - parent.valid_offset_y ELSE last.y
    IN  IF last.op \in {"view", "view_mut"} THEN y
        ELSE IF y < 0 THEN 0
        ELSE IF y > height(Flat(parent)) THEN height(Flat(parent)) ELSE y

ViewTaken ==
    /\ last.op \in {"view", "view_mut", "view_overhang", "view_overhang_mut"}
    /\ last.present

\* C21: a view taken of a view, at any depth and through any mix of view,
\* view_mut and the inner views of overhangs, is one record of stride, origin
\* and size and nothing else; its stride is the buffer's width, its origin is
\* the origin of the record it was taken from plus the origin of the call
\* (so the sum along the chain), and the address of its cell (i,j) is
\* stride * (origin_y + j) + origin_x + i.
C21_FlatRecord ==
    cur.kind # "PhysicalImage" =>
        LET f == Flat(cur)
        IN  /\ DOMAIN f = {"kind", "base_width", "roi_x", "roi_y", "roi_width", "roi_height"}
            /\ f.base_width = image.width
            /\ ViewTaken => (f.roi_x = roi_x(parent) + StepX /\ f.roi_y = roi_y(parent) + StepY)
            /\ (calls = 1 /\ ~IsOverhang(cur)) => (f.roi_x = last.x /\ f.roi_y = last.y)
            /\ \A i \in Probes, j \in Probes :
                  get(f, i, j).some =>
                      get(f, i, j).val = f.base_width * (f.roi_y + j) + f.roi_x + i

\* a view showing a cell, taken away from the corner of an overhang that
\* hangs over the left or top edge of the buffer
C21_Witness ==
    /\ calls = 2 /\ last.op \in {"view", "view_mut"} /\ last.present
    /\ IsOverhang(parent) /\ parent.valid_offset_x + parent.valid_offset_y > 0
    /\ roi_x(cur) + roi_y(cur) > 0 /\ roi_x(parent) + roi_y(parent) = 0
    /\ get(cur, 0, 0).some

(***************************************************************************)
(* The cases of the overlap counter (SpecCount)                            *)
(***************************************************************************)
\* C23: for every overhang iterator view_overhang and pix_iter can build,
\* empty valid windows included, and every `to` in [0, width * height],
\* count_in_rect_from_0(to) takes one of the two early returns or one of the
\* three arms, never the unreachable arm; no unsigned operation leaves the
\* usize range on the way; and the result lies in [0, iter_width * iter_height].
C23_CountCases ==
    last.op = "count_in_rect" =>
        \A to \in {last.begin, last.end} :
            LET it == iter0.val.iter
                c == IterOverhang_count_in_rect_from_0(it, to)
            IN  /\ ~c.abort
                /\ ~c.overflow
                /\ 0 <= c.val /\ c.val <= it.iter_width * it.iter_height

(***************************************************************************)
(* The two flavours of iterator                                            *)
(***************************************************************************)
\* the iterator the other flavour gives for the view held: the parallel one
\* for a serialized one and the other way round, mutable for mutable
OtherFlavour ==
    IF iter0.val.kind = "PixIter"
    THEN IF IsMutIter(It0) THEN pix_iter_serialized_mut(cur) ELSE pix_iter_serialized(cur)
    ELSE IF IsMutIter(It0) THEN pix_iter_mut(cur) ELSE pix_iter(cur)

\* the view's own frame in row-major order, as items of the iterator
RowMajor ==
    [i \in 1..(width(cur) * height(cur)) |->
        LET c == get(cur, (i - 1) % width(cur), (i - 1) \div width(cur))
        IN  IF It0.kind = "IterOverhang" THEN c ELSE c.val]

\* C24: for every view, full-width or narrow, pix_iter and
\* pix_iter_serialized (and their mutable forms) enumerate the same cells in
\* the same order, row-major over the view's own frame, and carry the same
\* width and height, so collecting either gives the same buffer.
C24_SameOrder ==
    Started =>
        /\ Traverse(It0) = Traverse(OtherFlavour.iter)
        /\ Traverse(It0) = RowMajor
        /\ PhysicalImage_with_data(iter0.val.width, iter0.val.height, Traverse(It0))
              = PhysicalImage_with_data(OtherFlavour.width, OtherFlavour.height,
                                        Traverse(OtherFlavour.iter))

\* a parallel iterator over a view narrower than the buffer that starts
\* below its first row
C24_Witness ==
    /\ Started /\ iter0.val.kind = "PixIter" /\ OtherFlavour.kind = "SerializePixIter"
    /\ cur.kind = "ImageRef" /\ cur.roi_y > 0 /\ cur.roi_width < cur.base_width
    /\ Len(Traverse(OtherFlavour.iter)) >= 1

(***************************************************************************)
(* The inner iterator of an overhang iterator                              *)
(***************************************************************************)
WindowedIter == OverhangIter /\ It0.iter_width >= 1 /\ It0.iter_height >= 1

\* C25: for an overhang iterator with a valid window of at least one cell,
\* after any sequence of next, next_back and split_at(k), k <= len, on it and
\* on its pieces, no call has panicked, the inner iterator of every piece has
\* as many elements left as the piece's outer range [start, end) has present
\* positions; so the inner iterator has an element to give at a present
\* position, at the front and at the back, and is empty when the outer range
\* is exhausted.
C25_InnerLength ==
    WindowedIter =>
        /\ ~panicked
        /\ \A p \in 1..Len(pieces) :
              LET it == pieces[p].it
                  w == it.width
              IN  /\ it_len(it.iter) = PresentIn(It0, it.range.start, it.range.end)
                  /\ it_len(it) = 0 => it_len(it.iter) = 0
                  /\ (it_len(it) > 0
                      /\ IterOverhang_in_rect(it, it.range.start % w, it.range.start \div w))
                        => inner_next(it.iter).item.some
                  /\ (it_len(it) > 0
                      /\ IterOverhang_in_rect(it, (it.range.end - 1) % w, (it.range.end - 1) \div w))
                        => inner_next_back(it.iter).item.some

\* an overhang iterator hanging over the left or top edge, split in three,
\* a present and an absent item pulled, one of them from the back
C25_Witness ==
    /\ WindowedIter /\ It0.offset_x + It0.offset_y > 0 /\ Len(pieces) = 3
    /\ \E p \in 1..3 : \E i \in 1..Len(pieces[p].front) : pieces[p].front[i].some
    /\ \E p \in 1..3 : \E i \in 1..Len(pieces[p].front) : ~pieces[p].front[i].some
    /\ \E p \in 1..3 : Len(pieces[p].back) >= 1

(***************************************************************************)
(* What a step changes in the buffer (SpecFrame)                           *)
(***************************************************************************)
\* the cells whose value the step changes
Changed == {c \in 0..(Len(data) - 1) : data'[c + 1] # data[c + 1]}

\* the cell at (x, y) of the view held, by the origins of the calls that led
\* to it
Target(x, y) == image.width * (origin.y + y) + origin.x + x

\* the step is a get_mut that returned a cell
WroteThrough ==
    /\ pieces' = pieces /\ iter0' = iter0
    /\ last'.op = "get_mut" /\ last'.res.some /\ writes' = writes + 1

\* the step is a next or a next_back: a piece has yielded one item more
Pulled ==
    /\ iter0' = iter0 /\ Len(pieces') = Len(pieces)
    /\ Len(Yielded(pieces', Len(pieces'))) = Len(Yielded(pieces, Len(pieces))) + 1

FrameStep ==
    /\ Len(data') = Len(data)
    /\ IF WroteThrough
       THEN /\ Changed \subseteq {Target(last'.x, last'.y)}
            /\ data'[Target(last'.x, last'.y) + 1] = 1
            /\ 0 <= origin.x + last'.x /\ origin.x + last'.x < image.width
            /\ 0 <= origin.y + last'.y /\ origin.y + last'.y < image.height
       ELSE IF Pulled /\ IsMutIter(It0)
       THEN Changed \subseteq Range_set(CellsOf(Yielded(pieces', Len(pieces'))))
            /\ Cardinality(Changed) <= 1
       ELSE Changed = {}

\* C28: a write through get_mut(x,y) of a mutable view or mutable overhang
\* at origin (ox,oy) changes the backing cell at (ox+x, oy+y) and no other;
\* get, view, view_mut, view_overhang, view_overhang_mut, a get_mut that
\* returns absent, the creation of an iterator, split_at, and next and
\* next_back of a shared iterator change no cell; next and next_back of a
\* mutable iterator change nothing themselves, the consumer's write reaching
\* only the cell handed out.
C28_Frame == [][FrameStep]_vars

\* a cell written through a mutable overhang that hangs over the left edge
\* of the buffer, away from the overhang's corner
C28_Witness ==
    /\ last.op = "get_mut" /\ last.res.some /\ writes = 1
    /\ cur.kind = "ImageRefOverhangMut" /\ origin.x < 0 /\ last.x > 0
    /\ Written = {Target(last.x, last.y)}

(***************************************************************************)
(* Termination of the fork-join consumer (SpecFork)                        *)
(***************************************************************************)
\* every piece is exhausted and the pieces have produced as many items as
\* the iterator had at the start
Joint ==
    /\ Started /\ ~panicked
    /\ \A p \in 1..Len(pieces) : it_len(pieces[p].it) = 0
    /\ Len(Yielded(pieces, Len(pieces))) = it_len(It0)

\* C29: a fork-join consumer that starts from one iterator of length n,
\* splits every piece of length >= 2 at some k in [1, len - 1] and drains the
\* pieces of length 1 with next, the tasks being run fairly, comes to a state
\* where every piece is exhausted and exactly n items have been produced.
C29_ForkJoinEnds == Started ~> Joint

(***************************************************************************)
(* Views within the buffer                                                 *)
(***************************************************************************)
\* C22: every view reached from a buffer of size W x H through checked view
\* and view_mut calls and through view_overhang and view_overhang_mut calls
\* (the overhang's inner view being the view meant) has stride W, satisfies
\* origin_x + width <= W and origin_y + height <= H, and lies within the
\* rectangle of the view it was taken from.
C22_ViewInsideBuffer ==
    cur.kind # "PhysicalImage" =>
        LET f == Flat(cur)
            g == Flat(parent)
        IN  /\ f.base_width = image.width
            /\ f.roi_x + f.roi_width <= image.width
            /\ f.roi_y + f.roi_height <= image.height
            /\ roi_x(parent) <= f.roi_x /\ f.roi_x + f.roi_width <= roi_x(parent) + width(g)
            /\ roi_y(parent) <= f.roi_y /\ f.roi_y + f.roi_height <= roi_y(parent) + height(g)

(***************************************************************************)
(* The addresses an iterator dereferences                                  *)
(***************************************************************************)
\* a linear index of the buffer that lies in the rectangle of the view held
InsideView(addr) ==
    /\ 0 <= addr /\ addr < image.width * image.height
    /\ roi_x(cur) <= addr % image.width
    /\ addr % image.width < roi_x(cur) + width(cur)
    /\ roi_y(cur) <= addr \div image.width
    /\ addr \div image.width < roi_y(cur) + height(cur)

PlainViewIter == PlainIter /\ ~IsOverhang(cur)

\* C26: for an iterator created from a view obtained through checked calls
\* from a buffer of size W x H, in every state reached through next,
\* next_back and split_at(k), k <= len, next and next_back do not panic
\* (no division by zero) and every address they have dereferenced or are
\* about to dereference is a linear index in [0, W*H) inside the view's
\* rectangle; an iterator over a view of zero width or height yields nothing.
C26_AddressesInside ==
    PlainViewIter =>
        /\ ~panicked
        /\ \A p \in 1..Len(pieces) :
              LET pc == pieces[p]
                  f == it_next(pc.it)
                  b == it_next_back(pc.it)
              IN  /\ ~f.panic /\ ~b.panic
                  /\ f.item.some => InsideView(f.item.val)
                  /\ b.item.some => InsideView(b.item.val)
                  /\ \A i \in 1..Len(pc.front) : InsideView(pc.front[i])
                  /\ \A i \in 1..Len(pc.back) : InsideView(pc.back[i])
        /\ (width(cur) = 0 \/ height(cur) = 0) => Traverse(It0) = <<>>

(***************************************************************************)
(* What a view of a view exposes                                           *)
(***************************************************************************)
\* the cell A shows at the signed position (x, y), if any
Shown(A, x, y) == IF x >= 0 /\ y >= 0 THEN get(A, x, y) ELSE None

\* C27: for B = A.view(bx,by,bw,bh), A.view_mut(...), A.view_overhang(...)
\* or A.view_overhang_mut(...), A being a buffer, a view or an overhang,
\* B.get(i,j) is present only if A.get(bx+i, by+j) is present, and is then
\* the same cell: B exposes no cell that A does not expose.
C27_NoNewCells ==
    ViewTaken =>
        \A i \in Probes, j \in Probes :
            get(cur, i, j).some =>
                get(cur, i, j) = Shown(parent, last.x + i, last.y + j)

(***************************************************************************)
(* The clamped rectangle of view_overhang                                  *)
(***************************************************************************)
\* the ends of the clamped rectangle as view_overhang computes them
ClampedEndX(W, x, w) == clamp(isize_wrap(x + w), 0, W)
ClampedEndY(H, y, h) == clamp(isize_wrap(y + h), 0, H)

\* C30: in view_overhang and view_overhang_mut, for every signed (x,y), every
\* (w,h) and every parent size (W,H) of the integer range, the clamped end is
\* not before the clamped start on either axis, so valid_width and
\* valid_height do not underflow, and the clamped rectangle of the overhang
\* that is returned satisfies the parent's view_is_valid.
C30_ClampedRectangle ==
    /\ (calls = 0 /\ ~panicked) =>
          \A x \in WideSignedXs, y \in WideSignedYs, w \in Widths, h \in Heights :
              /\ ClampedEndX(width(cur), x, w) >= clamp(x, 0, width(cur))
              /\ ClampedEndY(height(cur), y, h) >= clamp(y, 0, height(cur))
    /\ (OverhangCalled /\ parent.kind = "PhysicalImage") =>
          /\ cur.valid_ref.roi_x + cur.valid_ref.roi_width <= parent.width
          /\ cur.valid_ref.roi_y + cur.valid_ref.roi_height <= parent.height
          /\ cur.valid_ref.roi_x = clamp(last.x, 0, parent.width)
          /\ cur.valid_ref.roi_y = clamp(last.y, 0, parent.height)

\* the same for requests whose sums stay inside the integer range
C30_ClampedRectangleNear ==
    OverhangCalled =>
        LET W == width(parent)
            H == height(parent)
        IN  /\ ClampedEndX(W, last.x, last.w) >= clamp(last.x, 0, W)
            /\ ClampedEndY(H, last.y, last.h) >= clamp(last.y, 0, H)
            /\ ~view_overhang_overflows(parent, last.x, last.y, last.w, last.h)
            /\ view_is_valid(parent, clamp(last.x, 0, W), clamp(last.y, 0, H),
                             cur.valid_ref.roi_width, cur.valid_ref.roi_height)

====
